---- MODULE Spec2Model ----
(***************************************************************************)
(* QMX-Improved integer codec (compress_integer_qmx_improved.cpp): the     *)
(* bit-width classifier, the block planner, the bit packer (write_out),    *)
(* the encoder and the selector-driven decoder.                            *)
(*                                                                         *)
(* A uint32_t (and every wider or narrower machine word) is modelled as    *)
(* the set of the positions of its one-bits, so that |, &, ~, << and >>    *)
(* are union, intersection, complement, and translation with truncation.   *)
(* Bytes in memory are numbers 0..255; ByteVal and ByteBits convert.       *)
(***************************************************************************)
EXTENDS Integers, Sequences, FiniteSets, TLC

VARIABLES pc, source, encoded_buffer_length, length_buffer,
          length_buffer_length, full_length_buffer, encoded, ret,
          decoded, obs, instances, threads

\* one instance and its caller
caller == <<pc, source, encoded_buffer_length, length_buffer,
            length_buffer_length, full_length_buffer, encoded, ret,
            decoded, obs>>

vars == <<pc, source, encoded_buffer_length, length_buffer,
          length_buffer_length, full_length_buffer, encoded, ret,
          decoded, obs, instances, threads>>

(***************************************************************************)
(* Machine words                                                           *)
(***************************************************************************)
Bit32 == 0 .. 31

\* the uint32_t whose value is the natural number n (n < 2^31)
U32(n) == {b \in 0 .. 30 : (n \div (2 ^ b)) % 2 = 1}

\* the number held by a byte given as the set of its one-bits
ByteVal(s) ==
    (IF 0 \in s THEN 1 ELSE 0) + (IF 1 \in s THEN 2 ELSE 0) +
    (IF 2 \in s THEN 4 ELSE 0) + (IF 3 \in s THEN 8 ELSE 0) +
    (IF 4 \in s THEN 16 ELSE 0) + (IF 5 \in s THEN 32 ELSE 0) +
    (IF 6 \in s THEN 64 ELSE 0) + (IF 7 \in s THEN 128 ELSE 0)

\* the one-bits of the byte b (0..255)
ByteBits(b) == {i \in 0 .. 7 : (b \div (2 ^ i)) % 2 = 1}

\* byte j (little-endian) of the word v
ByteOf(v, j) == ByteVal({b - 8 * j : b \in v \cap ((8 * j) .. (8 * j + 7))})

\* the word whose little-endian bytes are the numbers in the sequence bs
WordOf(bs) ==
    UNION {{b + 8 * (j - 1) : b \in ByteBits(bs[j])} : j \in 1 .. Len(bs)}

\* v << s and v >> s on a word of `width` bits
Shl(v, s, width) == {b + s : b \in v} \cap (0 .. (width - 1))
Shr(v, s) == {b - s : b \in {x \in v : x >= s}}

\* unsigned a <= c: equal, or the highest bit in which they differ is c's
U32Leq(a, c) ==
    \/ a = c
    \/ \E b \in c \ a : \A x \in a \ c : x < b

\* the hexadecimal literals of the source
x01 == U32(1)
x03 == U32(3)
x07 == U32(7)
x0F == U32(15)
x1F == U32(31)
x3F == U32(63)
x7F == U32(127)
xFF == U32(255)
x1FF == U32(511)
x3FF == U32(1023)
xFFF == U32(4095)
xFFFF == U32(65535)
x1FFFFF == U32(2097151)

(***************************************************************************)
(* bits_needed_for(): QMX bits needed to store the given value             *)
(***************************************************************************)
bits_needed_for_no_quirk(value) ==
    IF U32Leq(value, x01) THEN 1
    ELSE IF U32Leq(value, x03) THEN 2
    ELSE IF U32Leq(value, x07) THEN 3
    ELSE IF U32Leq(value, x0F) THEN 4
    ELSE IF U32Leq(value, x1F) THEN 5
    ELSE IF U32Leq(value, x3F) THEN 6
    ELSE IF U32Leq(value, x7F) THEN 7
    ELSE IF U32Leq(value, xFF) THEN 8
    ELSE IF U32Leq(value, x1FF) THEN 9
    ELSE IF U32Leq(value, x3FF) THEN 10
    ELSE IF U32Leq(value, xFFF) THEN 12
    ELSE IF U32Leq(value, xFFFF) THEN 16
    ELSE IF U32Leq(value, x1FFFFF) THEN 21
    ELSE 32

\* the number of bits of the value, whether or not a block has that width
bits_needed_for_plain(value) ==
    IF value = x01 THEN 0
    ELSE CHOOSE b \in 1 .. 32 :
             value \subseteq 0 .. (b - 1) /\ (b = 1 \/ (b - 1) \in value)

bits_needed_for(value) ==
    IF value = x01 THEN 0
    ELSE IF U32Leq(value, x01) THEN 1
    ELSE IF U32Leq(value, x03) THEN 2
    ELSE IF U32Leq(value, x07) THEN 3
    ELSE IF U32Leq(value, x0F) THEN 4
    ELSE IF U32Leq(value, x1F) THEN 5
    ELSE IF U32Leq(value, x3F) THEN 6
    ELSE IF U32Leq(value, x7F) THEN 7
    ELSE IF U32Leq(value, xFF) THEN 8
    ELSE IF U32Leq(value, x1FF) THEN 9
    ELSE IF U32Leq(value, x3FF) THEN 10
    ELSE IF U32Leq(value, xFFF) THEN 12
    ELSE IF U32Leq(value, xFFFF) THEN 16
    ELSE IF U32Leq(value, x1FFFFF) THEN 21
    ELSE 32

(***************************************************************************)
(* table[]: selector number and integers per block, indexed by the width   *)
(***************************************************************************)
Row(t, i) == [type |-> t, integers |-> i]

table ==
    [size_in_bits \in 0 .. 32 |->
        CASE size_in_bits = 0 -> Row(0, 256)
          [] size_in_bits = 1 -> Row(1, 128)
          [] size_in_bits = 2 -> Row(2, 64)
          [] size_in_bits = 3 -> Row(3, 40)
          [] size_in_bits = 4 -> Row(4, 32)
          [] size_in_bits = 5 -> Row(5, 24)
          [] size_in_bits = 6 -> Row(6, 20)
          [] size_in_bits = 7 -> Row(7, 36)
          [] size_in_bits = 8 -> Row(8, 16)
          [] size_in_bits = 9 -> Row(9, 28)
          [] size_in_bits = 10 -> Row(10, 12)
          [] size_in_bits = 12 -> Row(11, 20)
          [] size_in_bits = 16 -> Row(12, 8)
          [] size_in_bits = 21 -> Row(13, 12)
          [] size_in_bits = 32 -> Row(14, 4)
          [] OTHER -> Row(0, 0)]

WASTAGE == 512

\* maximum(a, b) and the maximum of a non-empty set of numbers
maximum(a, b) == IF a > b THEN a ELSE b
MaxOf(S) == CHOOSE m \in S : \A x \in S : x <= m

MinOf(S) == CHOOSE m \in S : \A x \in S : m <= x

\* the array A with the k entries from index i on set to w
Fill(A, i, k, w) ==
    [x \in DOMAIN A |-> IF x >= i /\ x < i + k THEN w ELSE A[x]]

\* f(v) with v evaluated once, before f is applied to it
Eval(v, f(_)) == CHOOSE r \in {f(x) : x \in {v}} : TRUE

(***************************************************************************)
(* encode(): the width buffer and the block planner                        *)
(***************************************************************************)
\* a null pointer: a buffer with no element
NULL == << >>

\* the content of freshly allocated memory, never a width
UNINIT == "uninitialised"

\* encode, "make sure we have enough room to store the lengths"
allocate(lb, lbl, source_integers) ==
    IF lbl < source_integers
    THEN [length_buffer |->
              [x \in 0 .. (source_integers + WASTAGE - 1) |-> UNINIT],
          length_buffer_length |-> source_integers]
    ELSE [length_buffer |-> lb, length_buffer_length |-> lbl]

\* encode, "Get the lengths of the integers" and the WASTAGE zero lengths
get_lengths(lb, src) ==
    [x \in DOMAIN lb |->
        IF x < Len(src) THEN bits_needed_for(src[x + 1])
        ELSE IF x < Len(src) + WASTAGE THEN 0
        ELSE lb[x]]

\* each group of four gets the length of its first integer
smooth_first(lb, source_integers) ==
    [x \in DOMAIN lb |->
        LET q == x - (x % 4)
        IN  IF q < source_integers + 4 THEN lb[q] ELSE lb[x]]

\* encode, "Process the lengths": each group of four gets its maximum
smooth(lb, source_integers) ==
    [x \in DOMAIN lb |->
        LET q == x - (x % 4)
        IN  IF q < source_integers + 4
            THEN maximum(maximum(lb[q], lb[q + 1]),
                         maximum(lb[q + 2], lb[q + 3]))
            ELSE lb[x]]

\* the largest of the k lengths from index i on
largest_of(L, i, k) == MaxOf({0} \cup {L[i + block] : block \in 0 .. (k - 1)})

\* a walk without the three tests
tail_promotion_none(L, source_integers, i) == L

\* encode, the three tests on the number of values remaining
tail_promotion(L, source_integers, i) ==
    IF source_integers - i < 4
    THEN LET largest == largest_of(L, i, 8)
         IN  IF largest <= 8 THEN Fill(L, i, 8, 8)
             ELSE IF largest <= 16 THEN Fill(L, i, 8, 16)
             ELSE IF largest <= 32 THEN Fill(L, i, 8, 32)
             ELSE L
    ELSE IF source_integers - i < 8
    THEN LET largest == largest_of(L, i, 8)
         IN  IF largest <= 8 THEN Fill(L, i, 8, 8)
             ELSE IF largest <= 16 THEN Fill(L, i, 16, 16)
             ELSE L
    ELSE IF source_integers - i < 16
    THEN LET largest == largest_of(L, i, 16)
         IN  IF largest <= 8 THEN Fill(L, i, 16, 8)
             ELSE L
    ELSE L

\* the cases of the planner's switch: integers scanned, width promoted to
Case(n, p) == [integers |-> n, promote |-> p]

\* the cases with 10 promoted to 11, a width that has no case
planner_case_eleven ==
    [w \in {0, 1, 2, 3, 4, 5, 6, 7, 8, 9, 10, 12, 16, 21, 32} |->
        CASE w = 0 -> Case(256, 1)
          [] w = 1 -> Case(128, 2)
          [] w = 2 -> Case(64, 3)
          [] w = 3 -> Case(40, 4)
          [] w = 4 -> Case(32, 5)
          [] w = 5 -> Case(24, 6)
          [] w = 6 -> Case(20, 7)
          [] w = 7 -> Case(36, 8)
          [] w = 8 -> Case(16, 9)
          [] w = 9 -> Case(28, 10)
          [] w = 10 -> Case(12, 11)
          [] w = 12 -> Case(20, 16)
          [] w = 16 -> Case(8, 21)
          [] w = 21 -> Case(12, 32)
          [] w = 32 -> Case(4, 64)]

planner_case ==
    [w \in {0, 1, 2, 3, 4, 5, 6, 7, 8, 9, 10, 12, 16, 21, 32} |->
        CASE w = 0 -> Case(256, 1)
          [] w = 1 -> Case(128, 2)
          [] w = 2 -> Case(64, 3)
          [] w = 3 -> Case(40, 4)
          [] w = 4 -> Case(32, 5)
          [] w = 5 -> Case(24, 6)
          [] w = 6 -> Case(20, 7)
          [] w = 7 -> Case(36, 8)
          [] w = 8 -> Case(16, 9)
          [] w = 9 -> Case(28, 10)
          [] w = 10 -> Case(12, 12)
          [] w = 12 -> Case(20, 16)
          [] w = 16 -> Case(8, 21)
          [] w = 21 -> Case(12, 32)
          [] w = 32 -> Case(4, 64)]

\* a switch that moves on without storing the block's lengths
planner_switch_no_fill(L, i) ==
    LET w == L[i]
        c == planner_case[w]
        over == \E block \in 0 .. (c.integers - 1) :
                    block % 4 = 0 /\ L[i + block] > w
    IN  IF over
        THEN [L |-> Fill(L, i, 4, c.promote), i |-> i]
        ELSE [L |-> L, i |-> i + c.integers]

\* a switch that promotes two widths up at once
planner_switch_leap(L, i) ==
    LET w == L[i]
        c == planner_case[w]
        over == \E block \in 0 .. (c.integers - 1) :
                    block % 4 = 0 /\ L[i + block] > w
    IN  IF over
        THEN [L |-> Fill(L, i, 4, IF c.promote < 32
                                  THEN planner_case[c.promote].promote
                                  ELSE c.promote),
              i |-> i]
        ELSE [L |-> Fill(L, i, c.integers, w), i |-> i + c.integers]

\* one case of the switch: promote the four lengths at i, or settle the block
planner_switch(L, i) ==
    LET w == L[i]
        c == planner_case[w]
        over == \E block \in 0 .. (c.integers - 1) :
                    block % 4 = 0 /\ L[i + block] > w
    IN  IF over
        THEN [L |-> Fill(L, i, 4, c.promote), i |-> i]
        ELSE [L |-> Fill(L, i, c.integers, w), i |-> i + c.integers]

\* encode, "This code makes sure we can do aligned reads": the while loop
RECURSIVE promotion_walk(_, _, _, _)
promotion_walk(L, source_integers, i, passes) ==
    IF i >= source_integers
    THEN [L |-> L, passes |-> passes, aborted |-> FALSE]
    ELSE LET T == tail_promotion(L, source_integers, i)
         IN  IF T[i] \notin DOMAIN planner_case
             THEN [L |-> T, passes |-> passes, aborted |-> TRUE]
             ELSE Eval(planner_switch(T, i), LAMBDA s :
                      promotion_walk(s.L, source_integers, s.i, passes + 1))

(***************************************************************************)
(* write_out(): one selector per batch of up to 16 blocks, then the blocks *)
(***************************************************************************)
\* source[value] for a source pointer p, which points into the caller's
\* array or into full_length_buffer; oob is what a read past the caller's
\* array, or of an entry of full_length_buffer never stored to, returns
deref(src, flb, oob, p, value) ==
    IF p.buf = "source"
    THEN IF p.off + value < Len(src) THEN src[p.off + value + 1] ELSE oob
    ELSE IF p.off + value < Len(flb) THEN flb[p.off + value + 1] ELSE oob

\* sequence_buffer after "sequence_buffer[value & 0x03] |= rd[value] <<
\* sh[value]" for value in lo .. hi - 1, added to the lanes in acc; rd[value]
\* is source[value]
or_shifted(acc, rd, lo, hi, sh) ==
    [lane \in 0 .. 3 |->
        acc[lane] \cup
        UNION {Shl(rd[value], sh[value], 32) :
                  value \in {x \in lo .. (hi - 1) : x % 4 = lane}}]

\* the split integers put into the second word without the shift
or_high_unshifted(rd, lo, hi, s) ==
    [lane \in 0 .. 3 |->
        UNION {rd[value] : value \in {x \in lo .. (hi - 1) : x % 4 = lane}}]

\* sequence_buffer after "sequence_buffer[value & 0x03] |= rd[value] >> s"
\* for value in lo .. hi - 1
or_high(rd, lo, hi, s) ==
    [lane \in 0 .. 3 |->
        UNION {Shr(rd[value], s) :
                  value \in {x \in lo .. (hi - 1) : x % 4 = lane}}]

zero_lanes == [lane \in 0 .. 3 |-> {}]

\* memcpy(destination, sequence_buffer, 16)
lane_bytes(lanes) ==
    [j \in 1 .. 16 |-> ByteOf(lanes[(j - 1) \div 4], (j - 1) % 4)]

\* the bytes of `count` integers stored one after another, each as `size`
\* bytes (the casts to uint8_t, uint16_t and uint32_t of cases 8, 16, 32)
stored_bytes(rd, count, size) ==
    [j \in 1 .. (count * size) |->
        ByteOf(rd[(j - 1) \div size], (j - 1) % size)]

\* a single 128-bit word of n integers of w bits each
single_word(rd, n, w) ==
    lane_bytes(or_shifted(zero_lanes, rd, 0, n,
                          [value \in 0 .. (n - 1) |-> (value \div 4) * w]))

\* two 128-bit words: `first` integers go into the first word; the last four
\* of them are shifted right by `split` into the low bits of the second word,
\* where the integers up to n follow from bit `offset` on
double_word(rd, n, w, first, split, offset) ==
    lane_bytes(or_shifted(zero_lanes, rd, 0, first,
                          [value \in 0 .. (first - 1) |-> (value \div 4) * w]))
    \o lane_bytes(or_shifted(or_high(rd, first - 4, first, split),
                             rd, first, n,
                             [value \in first .. (n - 1) |->
                                 ((value - first) \div 4) * w + offset]))

Min(a, b) == IF a < b THEN a ELSE b

\* one pass of the switch of write_out: the bytes stored and the number of
\* source integers consumed; avail is end - source
pack_block(size_in_bits, rd, avail) ==
    CASE size_in_bits = 0 -> [bytes |-> << >>, integers |-> 256]
      [] size_in_bits = 1 ->
            [bytes |-> single_word(rd, 128, 1), integers |-> 128]
      [] size_in_bits = 2 -> [bytes |-> single_word(rd, 64, 2), integers |-> 64]
      [] size_in_bits = 3 -> [bytes |-> single_word(rd, 40, 3), integers |-> 40]
      [] size_in_bits = 4 -> [bytes |-> single_word(rd, 32, 4), integers |-> 32]
      [] size_in_bits = 5 -> [bytes |-> single_word(rd, 24, 5), integers |-> 24]
      [] size_in_bits = 6 -> [bytes |-> single_word(rd, 20, 6), integers |-> 20]
      [] size_in_bits = 7 ->
            [bytes |-> double_word(rd, 36, 7, 20, 4, 3), integers |-> 36]
      [] size_in_bits = 8 ->
            LET k == Min(16, maximum(avail, 0))
            IN  [bytes |-> stored_bytes(rd, k, 1), integers |-> k]
      [] size_in_bits = 9 ->
            [bytes |-> double_word(rd, 28, 9, 16, 5, 4), integers |-> 28]
      [] size_in_bits = 10 ->
            [bytes |-> single_word(rd, 12, 10), integers |-> 12]
      [] size_in_bits = 12 ->
            [bytes |-> double_word(rd, 20, 12, 12, 8, 8), integers |-> 20]
      [] size_in_bits = 16 ->
            LET k == Min(8, maximum(avail, 0))
            IN  [bytes |-> stored_bytes(rd, k, 2), integers |-> k]
      [] size_in_bits = 21 ->
            [bytes |-> double_word(rd, 12, 21, 8, 11, 11), integers |-> 12]
      [] size_in_bits = 32 ->
            LET k == Min(4, maximum(avail, 0))
            IN  [bytes |-> stored_bytes(rd, k, 4), integers |-> k]
      [] OTHER -> [bytes |-> << >>, integers |-> 0]

\* a selector whose low nibble is batch - 1, not its complement
selector_uncomplemented(type, batch) ==
    ByteVal(Shl(U32(type), 4, 32) \cup (U32(batch - 1) \cap x0F))

\* the selector byte: (type << 4) | (~(batch - 1) & 0x0F), stored as uint8_t
selector(type, batch) ==
    ByteVal(Shl(U32(type), 4, 32) \cup ((Bit32 \ U32(batch - 1)) \cap x0F))

\* a 0-padding that stores no zero after the r integers copied
fill_end_none(r, integers) == r

\* new_end + table[size_in_bits].integers, new_end being r entries from the
\* start of full_length_buffer: the entries from there on are not stored to
fill_end(r, integers) == r + integers

\* the 0-padding of write_out: the remaining integers of the run copied to
\* the front of full_length_buffer, table[size_in_bits].integers zeros after
zero_pad(src, flb, oob, p, end, integers) ==
    LET r == end - p.off
        hi == maximum(fill_end(r, integers), Len(flb))
    IN  [x \in 1 .. hi |->
            IF x <= r THEN deref(src, flb, oob, p, x - 1)
            ELSE IF x <= fill_end(r, integers) THEN U32(0)
            ELSE flb[x]]

\* the highest index of the caller's array read so far (-1: none)
reads_up_to(st, p, k) ==
    IF p.buf = "source" /\ k > 0 THEN maximum(st.src_hi, p.off + k - 1)
    ELSE st.src_hi

\* a block of k integers read at p is read, in part, from entries of
\* full_length_buffer that the 0-padding of this call of write_out has not
\* stored to; end is the number of integers it copied
reads_unset(p, k, end, integers) ==
    /\ p.buf = "full_length_buffer"
    /\ k > 0
    /\ p.off + k > fill_end(end, integers)

\* the loop "for (current = 0; current < batch; current++)"
RECURSIVE write_blocks(_, _, _, _, _, _, _, _)
write_blocks(st, src, oob, p, end, current, batch, size_in_bits) ==
    IF current >= batch
    THEN [st |-> st, p |-> p]
    ELSE Eval(pack_block(size_in_bits,
                         [value \in 0 .. (table[size_in_bits].integers - 1) |->
                             deref(src, st.full_length_buffer, oob, p, value)],
                         end - p.off),
              LAMBDA b :
                  Eval([st EXCEPT
                           !.destination = @ \o b.bytes,
                           !.blocks = Append(@, [bits |-> size_in_bits,
                                                 bytes |-> Len(b.bytes)]),
                           !.src_hi = IF size_in_bits = 0 THEN @
                                      ELSE reads_up_to(st, p, b.integers),
                           !.pad_unset =
                               \/ @
                               \/ /\ size_in_bits # 0
                                  /\ reads_unset(p, b.integers, end,
                                                 table[size_in_bits].integers)],
                       LAMBDA next :
                           write_blocks(next, src, oob,
                                        [buf |-> p.buf,
                                         off |-> p.off + b.integers],
                                        end, current + 1, batch,
                                        size_in_bits)))

\* every selector stands for one block
batch_of_one(count) == 1

\* batch = (count > 16) ? 16 : count
batch_of(count) == IF count > 16 THEN 16 ELSE count

\* the loop "while (count > 0)"
RECURSIVE write_batches(_, _, _, _, _, _, _)
write_batches(st, src, oob, p, end, count, size_in_bits) ==
    IF count <= 0
    THEN st
    ELSE LET batch == batch_of(count)
             type == table[size_in_bits].type
             integers == table[size_in_bits].integers
             st1 == [st EXCEPT
                        !.length_buffer[st.keys] = selector(type, batch),
                        !.keys = @ + 1]
             pad == p.off + integers * batch > end
             st2 == IF pad
                    THEN [st1 EXCEPT
                             !.full_length_buffer =
                                 zero_pad(src, @, oob, p, end, integers),
                             !.pad_hi = maximum(@, fill_end(end - p.off,
                                                          integers) - 1),
                             !.src_hi = reads_up_to(st1, p, end - p.off)]
                    ELSE st1
             p2 == IF pad THEN [buf |-> "full_length_buffer", off |-> 0] ELSE p
             end2 == IF pad THEN end - p.off ELSE end
         IN  Eval(Eval(st2, LAMBDA padded :
                       write_blocks(padded, src, oob, p2, end2, 0, batch,
                                    size_in_bits)),
                  LAMBDA w :
                      write_batches(w.st, src, oob, w.p, end2, count - batch,
                                    size_in_bits))

\* write_out(&destination, source, raw_count, size_in_bits, &keys); source is
\* an index into the caller's array
write_out(st, src, oob, source_index, raw_count, size_in_bits) ==
    IF size_in_bits > 32 \/ table[size_in_bits].integers = 0
    THEN [st EXCEPT !.aborted = TRUE]
    ELSE LET integers == table[size_in_bits].integers
             count == (raw_count + integers - 1) \div integers
             st1 == [st EXCEPT
                        !.calls = Append(@, [bits |-> size_in_bits,
                                             raw_count |-> raw_count,
                                             first_key |-> st.keys])]
         IN  write_batches(st1, src, oob,
                           [buf |-> "source", off |-> source_index],
                           source_index + raw_count, count, size_in_bits)

(***************************************************************************)
(* encode(): the run-length coder and the selectors copied backwards       *)
(***************************************************************************)
\* the first index from `current` on, below source_integers, whose length
\* differs from bits (source_integers if there is none): where the loop
\* "if (new_needed == bits) run_length++" stops counting
run_end(lb, source_integers, current, bits) ==
    LET differ == {j \in current .. (source_integers - 1) : lb[j] # bits}
    IN  IF differ = {} THEN maximum(current, source_integers)
        ELSE CHOOSE j \in differ : \A k \in differ : j <= k

\* encode, "We can now compress based on the lengths in length_buffer";
\* `current` is the index the for loop is at, `start` where the run began
RECURSIVE run_length_coder(_, _, _, _, _, _)
run_length_coder(st, src, oob, start, current, bits) ==
    LET stop == run_end(st.length_buffer, Len(src), current, bits)
    IN  Eval(write_out(st, src, oob, start, stop - start, bits),
             LAMBDA st1 :
                 IF stop >= Len(src) \/ st1.aborted
                 THEN st1
                 ELSE run_length_coder(st1, src, oob, stop, stop + 1,
                                       st.length_buffer[stop]))

\* the lengths copied to the end in the order they were stored
copy_forwards(destination, lb, keys) ==
    destination \o [pos \in 1 .. keys |-> lb[pos - 1]]

\* encode, "Copy the lengths to the end, backwards"
copy_backwards(destination, lb, keys) ==
    destination \o [pos \in 1 .. keys |-> lb[keys - pos]]

\* selectors stored from the last width of the source on
keys_at_end(source_integers) == source_integers - 1

\* keys = length_buffer: the index of the width buffer the first selector is
\* stored at
keys_at_start(source_integers) == 0

\* encode(into, encoded_buffer_length, source, source_integers) on an instance
\* inst; the result is the outcome of the call, the instance after it, the
\* bytes stored from `into` on and the value returned
encode(inst, src, oob) ==
    LET source_integers == Len(src)
        a == allocate(inst.length_buffer, inst.length_buffer_length,
                      source_integers)
        idle == [outcome |-> "crashed",
                 length_buffer |-> a.length_buffer,
                 length_buffer_length |-> a.length_buffer_length,
                 full_length_buffer |-> inst.full_length_buffer,
                 encoded |-> << >>, ret |-> 0,
                 lengths |-> << >>, plan |-> << >>, walked |-> << >>,
                 passes |-> 0,
                 keys |-> 0, blocks |-> << >>, calls |-> << >>,
                 src_hi |-> -1, pad_hi |-> -1, pad_unset |-> FALSE]
    IN  IF a.length_buffer = NULL
        THEN idle      \* the zero lengths are stored through a null pointer
        ELSE
        Eval(get_lengths(a.length_buffer, src), LAMBDA lengths :
        Eval(smooth(lengths, source_integers), LAMBDA smoothed :
        Eval(promotion_walk(smoothed, source_integers, 0, 0), LAMBDA walk :
        LET st0 == [destination |-> << >>,
                    length_buffer |-> walk.L,
                    keys |-> keys_at_start(source_integers),
                    full_length_buffer |-> inst.full_length_buffer,
                    blocks |-> << >>, calls |-> << >>,
                    src_hi |-> -1, pad_hi |-> -1, pad_unset |-> FALSE,
                    aborted |-> FALSE]
        IN
        Eval(IF walk.aborted THEN [st0 EXCEPT !.aborted = TRUE]
             ELSE run_length_coder(st0, src, oob, 0, 1, walk.L[0]),
             LAMBDA st :
        LET out == copy_backwards(st.destination, st.length_buffer, st.keys)
        IN  [outcome |-> IF st.aborted THEN "exited" ELSE "returned",
             length_buffer |-> st.length_buffer,
             length_buffer_length |-> a.length_buffer_length,
             full_length_buffer |-> st.full_length_buffer,
             encoded |-> IF st.aborted THEN st.destination ELSE out,
             ret |-> IF st.aborted THEN 0 ELSE Len(out),
             lengths |-> [x \in 1 .. source_integers |-> lengths[x - 1]],
             plan |-> [x \in 1 .. source_integers |-> walk.L[x - 1]],
             walked |-> walk.L,
             passes |-> walk.passes,
             keys |-> st.keys, blocks |-> st.blocks, calls |-> st.calls,
             src_hi |-> st.src_hi, pad_hi |-> st.pad_hi,
             pad_unset |-> st.pad_unset]))))

(***************************************************************************)
(* decode(): the SSE registers and intrinsics                              *)
(***************************************************************************)
\* an __m128i is its four 32-bit lanes, lane 0 the lowest
static_mask_21 == [lane \in 0 .. 3 |-> x1FFFFF]
static_mask_12 == [lane \in 0 .. 3 |-> xFFF]
static_mask_10 == [lane \in 0 .. 3 |-> x3FF]
static_mask_9 == [lane \in 0 .. 3 |-> x1FF]
static_mask_7 == [lane \in 0 .. 3 |-> x7F]
static_mask_6 == [lane \in 0 .. 3 |-> x3F]
static_mask_5 == [lane \in 0 .. 3 |-> x1F]
static_mask_4 == [lane \in 0 .. 3 |-> x0F]
static_mask_3 == [lane \in 0 .. 3 |-> x07]
static_mask_2 == [lane \in 0 .. 3 |-> x03]
static_mask_1 == [lane \in 0 .. 3 |-> x01]

\* the byte at offset off of the encoded stream; junk is what a load finds
\* at and beyond offset len
byte_at(mem, len, junk, off) ==
    IF off < len /\ off < Len(mem) THEN mem[off + 1] ELSE junk

mm_loadu_si128(mem, len, junk, in) ==
    [lane \in 0 .. 3 |->
        WordOf([j \in 1 .. 4 |->
                   byte_at(mem, len, junk, in + 4 * lane + j - 1)])]

mm_and_si128(a, b) == [lane \in 0 .. 3 |-> a[lane] \cap b[lane]]
mm_or_si128(a, b) == [lane \in 0 .. 3 |-> a[lane] \cup b[lane]]
mm_srli_epi32(a, count) == [lane \in 0 .. 3 |-> Shr(a[lane], count)]
mm_slli_epi32(a, count) == [lane \in 0 .. 3 |-> Shl(a[lane], count, 32)]

\* each 64-bit half (lanes 0-1 and lanes 2-3) shifted right as one word
mm_srli_epi64(a, count) ==
    [lane \in 0 .. 3 |->
        LET lo == a[lane - (lane % 2)]
            hi == a[lane - (lane % 2) + 1]
            q == Shr(lo \cup {b + 32 : b \in hi}, count)
        IN  IF lane % 2 = 0 THEN q \cap Bit32
            ELSE {b - 32 : b \in {x \in q : x >= 32}}]

\* _mm_cvtepi8_epi32: the four lowest bytes, each sign-extended to a lane
mm_cvtepi8_epi32(a) ==
    [lane \in 0 .. 3 |->
        LET byte == {b - 8 * lane :
                        b \in a[0] \cap ((8 * lane) .. (8 * lane + 7))}
        IN  IF 7 \in byte THEN byte \cup (8 .. 31) ELSE byte]

\* the four lowest bytes, each zero-extended to a lane
mm_cvtepu8_epi32(a) ==
    [lane \in 0 .. 3 |->
        {b - 8 * lane : b \in a[0] \cap ((8 * lane) .. (8 * lane + 7))}]

\* the four lowest 16-bit words, each zero-extended to a lane
mm_cvtepu16_epi32(a) ==
    [lane \in 0 .. 3 |->
        LET h == 16 * (lane % 2)
        IN  {b - h : b \in a[lane \div 2] \cap (h .. (h + 15))}]

\* _mm_shuffle_ps(a, b, 0x01)
mm_shuffle_ps_01(a, b) ==
    [lane \in 0 .. 3 |->
        CASE lane = 0 -> a[1] [] lane = 1 -> a[0]
          [] lane = 2 -> b[0] [] lane = 3 -> b[0]]

\* _mm_movehl_ps(a, b)
mm_movehl_ps(a, b) ==
    [lane \in 0 .. 3 |->
        CASE lane = 0 -> b[2] [] lane = 1 -> b[3]
          [] lane = 2 -> a[2] [] lane = 3 -> a[3]]

\* the four integers _mm_storeu_si128 writes
stored(reg) == <<reg[0], reg[1], reg[2], reg[3]>>

\* store, shift, store, ...: `stores` registers from byte_stream, each
\* masked, with byte_stream shifted by w between them; the store after j
\* shifts by w holds byte_stream shifted by j * w
unpack_epi64(byte_stream, mask, w, stores) ==
    [x \in 1 .. (4 * stores) |->
        mm_and_si128(mm_srli_epi64(byte_stream, ((x - 1) \div 4) * w),
                     mask)[(x - 1) % 4]]

unpack_epi32(byte_stream, mask, w, stores) ==
    [x \in 1 .. (4 * stores) |->
        mm_and_si128(mm_srli_epi32(byte_stream, ((x - 1) \div 4) * w),
                     mask)[(x - 1) % 4]]

\* byte_stream after k shifts by w
RECURSIVE srli_epi32_times(_, _, _)
srli_epi32_times(byte_stream, w, k) ==
    IF k = 0 THEN byte_stream
    ELSE Eval(mm_srli_epi32(byte_stream, w),
              LAMBDA shifted : srli_epi32_times(shifted, w, k - 1))

\* the body of a two-word case: `pre` stores from the first word, the store
\* that combines both words, `pre` stores from the second word
unpack_double(byte_stream, byte_stream_2, mask, w, pre, up, down) ==
    unpack_epi32(byte_stream, mask, w, pre)
    \o stored(mm_and_si128(
                  mm_or_si128(mm_slli_epi32(byte_stream_2, up),
                              srli_epi32_times(byte_stream, w, pre)),
                  mask))
    \o unpack_epi32(mm_srli_epi32(byte_stream_2, down), mask, w, pre)

\* 64 stores of a register of zeros
zeros_256 == [x \in 1 .. 256 |-> {}]

\* 64 stores of static_mask_1
ones_256 == [x \in 1 .. 256 |-> x01]

\* the body under one case label of width index `type`: the integers stored
\* and the bytes `in` advances by; words[k + 1] is what
\* _mm_loadu_si128((__m128i *)in + k) loads
unpack_case(type, words) ==
    CASE type = 0 -> [to |-> ones_256, in |-> 0, loads |-> 0]
      [] type = 1 -> [to |-> unpack_epi64(words[1], static_mask_1, 1, 32),
                      in |-> 16, loads |-> 1]
      [] type = 2 -> [to |-> unpack_epi64(words[1], static_mask_2, 2, 16),
                      in |-> 16, loads |-> 1]
      [] type = 3 -> [to |-> unpack_epi64(words[1], static_mask_3, 3, 10),
                      in |-> 16, loads |-> 1]
      [] type = 4 -> [to |-> unpack_epi64(words[1], static_mask_4, 4, 8),
                      in |-> 16, loads |-> 1]
      [] type = 5 -> [to |-> unpack_epi64(words[1], static_mask_5, 5, 6),
                      in |-> 16, loads |-> 1]
      [] type = 6 -> [to |-> unpack_epi64(words[1], static_mask_6, 6, 5),
                      in |-> 16, loads |-> 1]
      [] type = 7 -> [to |-> unpack_double(words[1], words[2], static_mask_7,
                                           7, 4, 4, 3),
                      in |-> 32, loads |-> 2]
      [] type = 8 ->
            LET tmp == words[1]
                tmp2 == mm_shuffle_ps_01(tmp, tmp)
                tmp3 == mm_movehl_ps(tmp, tmp)
                tmp4 == mm_shuffle_ps_01(tmp3, tmp3)
            IN  [to |-> stored(mm_cvtepu8_epi32(tmp))
                        \o stored(mm_cvtepu8_epi32(tmp2))
                        \o stored(mm_cvtepu8_epi32(tmp3))
                        \o stored(mm_cvtepu8_epi32(tmp4)),
                 in |-> 16, loads |-> 1]
      [] type = 9 -> [to |-> unpack_double(words[1], words[2], static_mask_9,
                                           9, 3, 5, 4),
                      in |-> 32, loads |-> 2]
      [] type = 10 -> [to |-> unpack_epi64(words[1], static_mask_10, 10, 3),
                       in |-> 16, loads |-> 1]
      [] type = 11 -> [to |-> unpack_double(words[1], words[2], static_mask_12,
                                            12, 2, 8, 8),
                       in |-> 32, loads |-> 2]
      [] type = 12 ->
            LET tmp == words[1]
            IN  [to |-> stored(mm_cvtepu16_epi32(tmp))
                        \o stored(mm_cvtepu16_epi32(mm_movehl_ps(tmp, tmp))),
                 in |-> 16, loads |-> 1]
      [] type = 13 -> [to |-> unpack_double(words[1], words[2], static_mask_21,
                                            21, 1, 11, 11),
                       in |-> 32, loads |-> 2]
      [] type = 14 -> [to |-> stored(words[1]), in |-> 16, loads |-> 1]
      [] OTHER -> [to |-> << >>, in |-> 1, loads |-> 0]

(***************************************************************************)
(* decode(): the dispatch loop                                             *)
(***************************************************************************)
\* the body under one case label: unpack at `in`, advance `in` and `to`
case_body(st, mem, len, junk, type) ==
    LET b == Eval(<<mm_loadu_si128(mem, len, junk, st.in),
                    mm_loadu_si128(mem, len, junk, st.in + 16)>>,
                  LAMBDA words : unpack_case(type, words))
    IN  [st EXCEPT
            !.to = @ \o b.to,
            !.in = @ + b.in,
            !.bodies = @ + 1,
            !.loads = @ \o [k \in 1 .. b.loads |->
                               [off |-> st.in + 16 * (k - 1),
                                keys |-> st.keys]]]

\* a switch whose every case ends in a break
fall_through_break(st, mem, len, junk, type, label) ==
    IF label > 15 THEN st ELSE case_body(st, mem, len, junk, type)

\* the low nibble taken as the number of bodies less one
RECURSIVE fall_through_counted(_, _, _, _, _, _)
fall_through_counted(st, mem, len, junk, type, label) ==
    Eval(case_body(st, mem, len, junk, type), LAMBDA next :
         IF label <= 0 THEN next
         ELSE fall_through_counted(next, mem, len, junk, type, label - 1))

\* every selector enters at the first label of its width
fall_through_whole(st, mem, len, junk, type, label) ==
    fall_through_counted(st, mem, len, junk, type, 15)

\* the bodies from case label `label` down to the break after label 15
RECURSIVE fall_through(_, _, _, _, _, _)
fall_through(st, mem, len, junk, type, label) ==
    IF label > 15
    THEN st
    ELSE Eval(case_body(st, mem, len, junk, type), LAMBDA next :
              fall_through(next, mem, len, junk, type, label + 1))

\* the loop ends before it reads the selector at `in`
loop_condition_strict(in, keys) == in < keys

\* in <= keys
loop_condition(in, keys) == in <= keys

\* switch (*keys--): one iteration of the loop
dispatch_step(st, mem, len, junk) ==
    LET key == byte_at(mem, len, junk, st.keys)
        st1 == [st EXCEPT
                   !.keys = @ - 1,
                   !.iterations = @ + 1,
                   !.selectors = Append(@, [off |-> st.keys,
                                            key |-> key,
                                            in |-> st.in,
                                            to |-> Len(st.to)])]
    IN  Eval(st1, LAMBDA read :
             fall_through(read, mem, len, junk, key \div 16, key % 16))

\* while (in <= keys) switch (*keys--)
RECURSIVE dispatch_loop(_, _, _, _)
dispatch_loop(st, mem, len, junk) ==
    IF ~loop_condition(st.in, st.keys)
    THEN st
    ELSE Eval(dispatch_step(st, mem, len, junk),
              LAMBDA next : dispatch_loop(next, mem, len, junk))

\* in = source, keys = source + len - 1, and nothing stored yet
decode_start(len) ==
    [in |-> 0, keys |-> len - 1, to |-> << >>,
     iterations |-> 0, bodies |-> 0,
     loads |-> << >>, selectors |-> << >>]

\* decode(to, destination_integers, source, len): the integers stored from
\* `to` on, with the cursors and what the loop read
decode(mem, len, junk) == dispatch_loop(decode_start(len), mem, len, junk)

(***************************************************************************)
(* The calls made on one codec instance                                    *)
(***************************************************************************)
\* bounds of the model
MaxLen == 300
SmallBuffer == 4
LargeBuffer == 2048
MaxCalls == 2

\* what memory that was never written may hold
JunkBytes == {0, 255}
JunkWords == {U32(0), Bit32}

Rep(v, k) == [i \in 1 .. k |-> v]

\* every 2^k - 1 and every 2^k of a uint32_t
Boundary == {0 .. (k - 1) : k \in 0 .. 32} \cup {{k} : k \in 0 .. 31}

\* the i-th value of a sequence of values that need exactly w bits (w = 0:
\* the value 1; w = 1: zeros and ones)
Pattern(w, i) ==
    IF w = 0 THEN x01
    ELSE IF w = 1 THEN U32((i \div 3) % 2)
    ELSE U32((i * 5000011 + 7) % (2 ^ (IF w = 32 THEN 30 ELSE w - 1)))
         \cup {w - 1}

Ramp(w, k) == [i \in 1 .. k |-> Pattern(w, i)]

Widths == DOMAIN planner_case

Singles == {<<v>> : v \in Boundary}

Ramps ==
    {Ramp(w, k) : w \in Widths, k \in {3}}
    \cup {Ramp(w, table[w].integers) : w \in Widths}
    \cup {Ramp(w, table[w].integers + 20) : w \in Widths}
    \cup {Ramp(32, 68), Ramp(16, 139), Ramp(8, 20), Ramp(0, 300)}

Mixed ==
    {Ramp(a, k) \o Ramp(b, j) :
        a \in {0, 3, 8, 32}, b \in {1, 7, 21}, k \in {5, 40}, j \in {5, 40}}

\* payload blocks, then a last block of width 0
Blends ==
    {Ramp(3, 10) \o Ramp(6, 10) \o Ramp(0, 256),
     Ramp(8, 16) \o Ramp(0, 256)}

Inputs ==
    {<< >>}
    \cup {s \in Singles \cup Ramps \cup Mixed \cup Blends : Len(s) <= MaxLen}

ReuseInputs ==
    {<< >>, <<U32(5)>>, Ramp(8, 20), Ramp(3, 9), Ramp(0, 16), Ramp(21, 5)}

no_encode == [oob |-> {}, lengths |-> << >>, plan |-> << >>,
              walked |-> << >>, passes |-> 0,
              keys |-> 0, blocks |-> << >>, calls |-> << >>,
              src_hi |-> -1, pad_hi |-> -1, pad_unset |-> FALSE]

no_decode == [len |-> 0, junk |-> 0, in |-> 0, keys |-> 0, iterations |-> 0,
              bodies |-> 0, loads |-> << >>, selectors |-> << >>]

\* a fresh instance
fresh_instance ==
    [length_buffer |-> NULL, length_buffer_length |-> 0,
     full_length_buffer |-> NULL]

\* the threads, each with a codec instance of its own
Threads == {1, 2}

\* a thread that has not called yet
no_call == [at |-> "idle", source |-> << >>, destination |-> << >>,
            keys |-> 0, encoded |-> << >>, ret |-> 0, decoded |-> << >>]

Init ==
    /\ pc = "idle"
    /\ source = << >>
    /\ encoded_buffer_length = 0
    /\ length_buffer = NULL
    /\ length_buffer_length = 0
    /\ full_length_buffer = NULL
    /\ encoded = << >>
    /\ ret = 0
    /\ decoded = << >>
    /\ obs = [ncalls |-> 0, history |-> << >>,
              enc |-> no_encode, dec |-> no_decode]
    /\ instances = [i \in Threads |-> fresh_instance]
    /\ threads = [t \in Threads |-> no_call]

\* what the call r read past the last element of the caller's array (zero
\* if it read nothing there)
oob_read(r, src, oob) == IF r.src_hi >= Len(src) THEN oob ELSE U32(0)

\* qmx_encode(self, encoded, cap, src, Len(src)), the caller's array having
\* oob after its last element
Encode(src, cap, oob) ==
    \E r \in {encode([length_buffer |-> length_buffer,
                      length_buffer_length |-> length_buffer_length,
                      full_length_buffer |-> full_length_buffer],
                     src, oob)} :
        /\ pc' = r.outcome
        /\ source' = src
        /\ encoded_buffer_length' = cap
        /\ length_buffer' = r.length_buffer
        /\ length_buffer_length' = r.length_buffer_length
        /\ full_length_buffer' = r.full_length_buffer
        /\ encoded' = r.encoded
        /\ ret' = r.ret
        /\ decoded' = << >>
        /\ obs' = [ncalls |-> obs.ncalls + 1,
                   history |-> Append(obs.history,
                                      [op |-> "encode", source |-> src,
                                       oob |-> oob_read(r, src, oob)]),
                   enc |-> [oob |-> oob_read(r, src, oob),
                            lengths |-> r.lengths,
                            plan |-> r.plan, walked |-> r.walked,
                            passes |-> r.passes,
                            keys |-> r.keys, blocks |-> r.blocks,
                            calls |-> r.calls, src_hi |-> r.src_hi,
                            pad_hi |-> r.pad_hi,
                            pad_unset |-> r.pad_unset],
                   dec |-> no_decode]
        /\ UNCHANGED <<instances, threads>>

\* the first call on a fresh instance
FirstEncode ==
    /\ pc = "idle"
    /\ \E src \in Inputs, oob \in JunkWords,
          cap \in {SmallBuffer, LargeBuffer} : Encode(src, cap, oob)

\* a call on an instance that may have served calls before
NextEncode ==
    /\ pc \in {"idle", "returned", "decoded"}
    /\ obs.ncalls < MaxCalls
    /\ \E src \in ReuseInputs, oob \in JunkWords : Encode(src, LargeBuffer, oob)

\* decode(decoded, Len(source), encoded, len), the memory from offset len on
\* holding junk: what the call does to its arguments
decode_call(len, junk) ==
    /\ pc = "returned"
    /\ \E d \in {decode(encoded, len, junk)} :
        /\ pc' = "decoded"
        /\ decoded' = d.to
        /\ obs' = [obs EXCEPT
                      !.history = Append(@, [op |-> "decode"]),
                      !.dec = [len |-> len, junk |-> junk, in |-> d.in,
                               keys |-> d.keys, iterations |-> d.iterations,
                               bodies |-> d.bodies, loads |-> d.loads,
                               selectors |-> d.selectors]]
    /\ UNCHANGED <<source, encoded_buffer_length, encoded, ret,
                   instances, threads>>

\* a decode that releases the width buffer of the instance
Decode_releasing(len, junk) ==
    /\ decode_call(len, junk)
    /\ length_buffer' = NULL
    /\ UNCHANGED <<length_buffer_length, full_length_buffer>>

\* qmx_decode(self, decoded, Len(source), encoded, len): decode has no
\* statement that names a member of the instance
Decode(len, junk) ==
    /\ decode_call(len, junk)
    /\ UNCHANGED <<length_buffer, length_buffer_length, full_length_buffer>>

\* the caller decodes what encode returned
DecodeReturned == \E junk \in JunkBytes : Decode(ret, junk)

\* the caller decodes a source of length 0
DecodeNothing == \E junk \in JunkBytes : Decode(0, junk)

Next == FirstEncode \/ DecodeReturned \/ DecodeNothing

Spec == Init /\ [][Next]_vars

NextReuse == NextEncode \/ DecodeReturned \/ DecodeNothing

SpecReuse == Init /\ [][NextReuse]_vars

(***************************************************************************)
(* Two threads, each calling encode and decode on an instance of its own   *)
(***************************************************************************)
\* what the threads encode: sources of one length, of different widths
ThreadInputs == {Ramp(3, 20), Ramp(5, 20), Ramp(9, 20)}

\* every instance keeps its scratch in one static buffer
scratch_static(t) == 1

\* the instance whose members the code of thread t names: length_buffer,
\* length_buffer_length and full_length_buffer are members of the object
\* the call is made on
scratch_of(t) == t

\* thread t moves on to `at`, its instance becoming inst
thread_step(t, at, inst, local) ==
    /\ instances' = [instances EXCEPT ![scratch_of(t)] = inst]
    /\ threads' = [threads EXCEPT ![t] = local @@ [at |-> at] @@ threads[t]]
    /\ UNCHANGED caller

\* both threads are given their sources and call qmx_encode
Spawn ==
    /\ \A t \in Threads : threads[t].at = "idle"
    /\ \E srcs \in [Threads -> ThreadInputs] :
          threads' = [t \in Threads |->
                         [no_call EXCEPT !.at = "allocate",
                                         !.source = srcs[t]]]
    /\ UNCHANGED <<caller, instances>>

\* encode: make sure we have enough room to store the lengths
ThreadAllocate(t) ==
    /\ threads[t].at = "allocate"
    /\ LET inst == instances[scratch_of(t)]
           a == allocate(inst.length_buffer, inst.length_buffer_length,
                         Len(threads[t].source))
       IN  thread_step(t, "lengths",
                       [inst EXCEPT
                           !.length_buffer = a.length_buffer,
                           !.length_buffer_length = a.length_buffer_length],
                       << >>)

\* encode: get the lengths of the integers, and the WASTAGE zero lengths
ThreadLengths(t) ==
    /\ threads[t].at = "lengths"
    /\ LET inst == instances[scratch_of(t)]
       IN  thread_step(t, "smooth",
                       [inst EXCEPT
                           !.length_buffer =
                               get_lengths(@, threads[t].source)],
                       << >>)

\* encode: process the lengths
ThreadSmooth(t) ==
    /\ threads[t].at = "smooth"
    /\ LET inst == instances[scratch_of(t)]
       IN  thread_step(t, "walk",
                       [inst EXCEPT
                           !.length_buffer =
                               smooth(@, Len(threads[t].source))],
                       << >>)

\* encode: the promotion walk
ThreadWalk(t) ==
    /\ threads[t].at = "walk"
    /\ \E walk \in {promotion_walk(instances[scratch_of(t)].length_buffer,
                                    Len(threads[t].source), 0, 0)} :
          thread_step(t, IF walk.aborted THEN "exited" ELSE "pack",
                      [instances[scratch_of(t)] EXCEPT
                          !.length_buffer = walk.L],
                      << >>)

\* encode: the run-length coder and its calls of write_out
ThreadPack(t) ==
    /\ threads[t].at = "pack"
    /\ LET inst == instances[scratch_of(t)]
           st0 == [destination |-> << >>,
                   length_buffer |-> inst.length_buffer,
                   keys |-> keys_at_start(Len(threads[t].source)),
                   full_length_buffer |-> inst.full_length_buffer,
                   blocks |-> << >>, calls |-> << >>,
                   src_hi |-> -1, pad_hi |-> -1, pad_unset |-> FALSE,
                    aborted |-> FALSE]
       IN  \E st \in {run_length_coder(st0, threads[t].source, U32(0), 0, 1,
                                       inst.length_buffer[0])} :
               thread_step(t, IF st.aborted THEN "exited" ELSE "copy",
                           [inst EXCEPT
                               !.length_buffer = st.length_buffer,
                               !.full_length_buffer = st.full_length_buffer],
                           [destination |-> st.destination,
                            keys |-> st.keys])

\* encode: copy the lengths to the end, backwards, and return
ThreadCopy(t) ==
    /\ threads[t].at = "copy"
    /\ LET out == copy_backwards(threads[t].destination,
                                 instances[scratch_of(t)].length_buffer,
                                 threads[t].keys)
       IN  thread_step(t, "returned", instances[scratch_of(t)],
                       [encoded |-> out, ret |-> Len(out)])

\* the thread calls qmx_decode on what qmx_encode returned
ThreadDecode(t) ==
    /\ threads[t].at = "returned"
    /\ \E junk \in JunkBytes :
          thread_step(t, "decoded", instances[scratch_of(t)],
                      [decoded |->
                          decode(threads[t].encoded, threads[t].ret, junk).to])

NextThreads ==
    \/ Spawn
    \/ \E t \in Threads :
          \/ ThreadAllocate(t)
          \/ ThreadLengths(t)
          \/ ThreadSmooth(t)
          \/ ThreadWalk(t)
          \/ ThreadPack(t)
          \/ ThreadCopy(t)
          \/ ThreadDecode(t)

SpecThreads == Init /\ [][NextThreads]_vars

(***************************************************************************)
(* Sources that are all ones                                               *)
(***************************************************************************)
\* the largest number of width-0 blocks in a source of ones
MaxBlocks == 16

\* ones, by whole width-0 blocks and by halves of one
OnesInputs == {Rep(x01, 128 * j) : j \in 1 .. (2 * MaxBlocks)}

\* the first call on a fresh instance, on a source of ones
OnesEncode ==
    /\ pc = "idle"
    /\ \E src \in OnesInputs, cap \in {SmallBuffer, LargeBuffer} :
          Encode(src, cap, U32(0))

NextOnes == OnesEncode \/ DecodeReturned

SpecOnes == Init /\ [][NextOnes]_vars

(***************************************************************************)
(* Streams the caller did not get from encode                              *)
(***************************************************************************)
\* the bytes `in` advances by in one body of width index `type`
body_bytes(type) ==
    unpack_case(type, <<mm_loadu_si128(<< >>, 0, 0, 0),
                        mm_loadu_si128(<< >>, 0, 0, 0)>>).in

\* payload bytes: a pattern, or all 0xFF
Payload(fill, len) ==
    [i \in 1 .. len |-> IF fill = 0 THEN (i * 37 + 11) % 256 ELSE 255]

\* one selector (type << 4) | k above the payload of its 16 - k bodies
one_selector(type, k, fill) ==
    Payload(fill, (16 - k) * body_bytes(type)) \o <<type * 16 + k>>

\* the caller is handed the bytes of a stream and its length
Receive ==
    /\ pc = "idle"
    /\ \E type \in 0 .. 15, k \in 0 .. 15, fill \in {0, 1} :
          /\ encoded' = one_selector(type, k, fill)
          /\ ret' = Len(encoded')
    /\ pc' = "returned"
    /\ UNCHANGED <<source, encoded_buffer_length, length_buffer,
                   length_buffer_length, full_length_buffer, decoded, obs,
                   instances, threads>>

NextDecode == Receive \/ FirstEncode \/ DecodeReturned

SpecDecode == Init /\ [][NextDecode]_vars

(***************************************************************************)
(* decode, one iteration of its loop at a time                             *)
(***************************************************************************)
\* what the cursors of a decode in progress are recorded as
loop_record(len, junk, st) ==
    [len |-> len, junk |-> junk, in |-> st.in, keys |-> st.keys,
     iterations |-> st.iterations, bodies |-> st.bodies,
     loads |-> st.loads, selectors |-> st.selectors]

\* qmx_decode is called on what encode returned: the cursors are set up
DecodeBegin ==
    /\ pc = "returned"
    /\ \E junk \in JunkBytes :
          obs' = [obs EXCEPT
                     !.history = Append(@, [op |-> "decode"]),
                     !.dec = loop_record(ret, junk, decode_start(ret))]
    /\ pc' = "decoding"
    /\ decoded' = << >>
    /\ UNCHANGED <<source, encoded_buffer_length, length_buffer,
                   length_buffer_length, full_length_buffer, encoded, ret,
                   instances, threads>>

\* the loop condition holds: one selector is read and its bodies are run
DecodeIteration ==
    /\ pc = "decoding"
    /\ loop_condition(obs.dec.in, obs.dec.keys)
    /\ \E st \in {dispatch_step([in |-> obs.dec.in, keys |-> obs.dec.keys,
                                 to |-> decoded,
                                 iterations |-> obs.dec.iterations,
                                 bodies |-> obs.dec.bodies,
                                 loads |-> obs.dec.loads,
                                 selectors |-> obs.dec.selectors],
                                encoded, obs.dec.len, obs.dec.junk)} :
          /\ decoded' = st.to
          /\ obs' = [obs EXCEPT
                        !.dec = loop_record(obs.dec.len, obs.dec.junk, st)]
    /\ UNCHANGED <<pc, source, encoded_buffer_length, length_buffer,
                   length_buffer_length, full_length_buffer, encoded, ret,
                   instances, threads>>

\* the loop condition fails: decode returns
DecodeEnd ==
    /\ pc = "decoding"
    /\ ~loop_condition(obs.dec.in, obs.dec.keys)
    /\ pc' = "decoded"
    /\ UNCHANGED <<source, encoded_buffer_length, length_buffer,
                   length_buffer_length, full_length_buffer, encoded, ret,
                   decoded, obs, instances, threads>>

NextLoop == FirstEncode \/ DecodeBegin \/ DecodeIteration \/ DecodeEnd

\* a call of decode runs on one thread, which goes on to the next statement
SpecLoop ==
    /\ Init
    /\ [][NextLoop]_vars
    /\ WF_vars(DecodeIteration)
    /\ WF_vars(DecodeEnd)

(***************************************************************************)
(* One block: the switch of write_out, then the body of one case label     *)
(***************************************************************************)
\* the i-th value (from 0) of a block of values below 2^w
BlockKinds == {"max", "zero", "ramp", "walk", "alt", "rev"}

block_value(kind, w, i) ==
    CASE kind = "max" -> 0 .. (w - 1)
      [] kind = "zero" -> U32(0)
      [] kind = "ramp" -> Pattern(w, i)
      [] kind = "walk" -> {i % w}
      [] kind = "alt" -> IF i % 2 = 0 THEN 0 .. (w - 1) ELSE {(i \div 2) % w}
      [] kind = "rev" -> (0 .. (w - 1)) \ {i % w}

\* write_out packs one whole block of table[w].integers values of the width w
PackBlock ==
    /\ pc = "idle"
    /\ \E w \in Widths \ {0}, kind \in BlockKinds :
          \E values \in {[i \in 1 .. table[w].integers |->
                             block_value(kind, w, i - 1)]} :
          \E b \in {pack_block(w, [value \in 0 .. (Len(values) - 1) |->
                                      values[value + 1]],
                               Len(values))} :
              /\ source' = values
              /\ encoded' = b.bytes
              /\ ret' = Len(b.bytes)
              /\ obs' = [obs EXCEPT
                            !.enc.blocks = <<[bits |-> w,
                                              bytes |-> Len(b.bytes)]>>]
    /\ pc' = "packed"
    /\ UNCHANGED <<encoded_buffer_length, length_buffer,
                   length_buffer_length, full_length_buffer, decoded,
                   instances, threads>>

\* the body of a case label of that width unpacks the bytes of the block
UnpackBlock ==
    /\ pc = "packed"
    /\ \E junk \in JunkBytes :
          \E words \in {<<mm_loadu_si128(encoded, ret, junk, 0),
                          mm_loadu_si128(encoded, ret, junk, 16)>>} :
              decoded' = unpack_case(table[obs.enc.blocks[1].bits].type,
                                     words).to
    /\ pc' = "unpacked"
    /\ UNCHANGED <<source, encoded_buffer_length, length_buffer,
                   length_buffer_length, full_length_buffer, encoded, ret,
                   obs, instances, threads>>

NextBlock == PackBlock \/ UnpackBlock

SpecBlock == Init /\ [][NextBlock]_vars

(***************************************************************************)
(* encode, one pass of the planner's while loop at a time                  *)
(***************************************************************************)
\* the longest tail after the leading quads of a planner input
MaxTail == 40

\* leading quads of one width, then quads of a second, then a tail of a third
WalkInputs ==
    {<< >>}
    \cup {Ramp(a, k) \o Ramp(b, j) \o Ramp(c, m) :
             a \in {0, 7, 32}, b \in {6, 16}, c \in {1, 8, 16, 21, 32},
             k \in {0, 4}, j \in {0, 12},
             m \in {1, 3, 4, 7, 8, 15, 16, MaxTail}}

\* the indices of the width buffer that the lengths, the WASTAGE zero
\* lengths and the smoothing store to or read from
indices_of_lengths(source_integers) == 0 .. (source_integers - 1)

indices_of_wastage(source_integers) ==
    source_integers .. (source_integers + WASTAGE - 1)

indices_of_smoothing(source_integers) ==
    {q + k : q \in {x \in 0 .. (source_integers + 3) : x % 4 = 0},
             k \in 0 .. 3}

\* the indices the three tests on the number of values remaining read and
\* store to, the cursor being at i
indices_of_tail(L, source_integers, i) ==
    IF source_integers - i < 4 THEN i .. (i + 7)
    ELSE IF source_integers - i < 8
    THEN LET largest == largest_of(L, i, 8)
         IN  IF largest > 8 /\ largest <= 16 THEN i .. (i + 15)
             ELSE i .. (i + 7)
    ELSE IF source_integers - i < 16 THEN i .. (i + 15)
    ELSE {}

\* the indices the case of the switch reads ahead of the cursor at i
lookahead(L, i) ==
    {i + block : block \in {x \in 0 .. (planner_case[L[i]].integers - 1) :
                               x % 4 = 0}}

\* the indices the case of the switch stores to: the four promoted lengths
\* or the lengths of the block
indices_of_stores(L, i, s) ==
    IF s.i = i THEN i .. (i + 3) ELSE i .. (s.i - 1)

\* the planner between two passes: the cursor, the passes made, the
\* promotions since the cursor last moved and the most in a row so far, the
\* blocks settled, the lengths as smoothing left them, and the lowest and
\* highest index of the width buffer used so far
walk_record(N, S, i, passes, run, longest, blocks, last, lo, hi, ahead) ==
    [source_integers |-> N, smoothed |-> S, current_length |-> i,
     passes |-> passes, run |-> run, longest |-> longest,
     blocks |-> blocks, last |-> last,
     lo |-> lo, hi |-> hi, ahead |-> ahead]

\* encode up to the while loop: the width buffer, the lengths, the smoothing
WalkBegin ==
    /\ pc = "idle"
    /\ \E src \in WalkInputs :
          \E a \in {allocate(length_buffer, length_buffer_length, Len(src))} :
          /\ source' = src
          /\ length_buffer_length' = a.length_buffer_length
          /\ IF a.length_buffer = NULL
             THEN /\ pc' = "crashed"   \* the store of the first zero length
                  /\ length_buffer' = a.length_buffer
                  /\ obs' = [obs EXCEPT
                                !.ncalls = @ + 1,
                                !.enc = walk_record(
                                    Len(src), a.length_buffer, 0, 0, 0, 0,
                                    << >>, "begin", Len(src), Len(src), -1)]
             ELSE \E touched \in {indices_of_lengths(Len(src))
                                  \cup indices_of_wastage(Len(src))
                                  \cup indices_of_smoothing(Len(src))} :
                  \E smoothed \in {smooth(get_lengths(a.length_buffer, src),
                                          Len(src))} :
                  /\ pc' = "walking"
                  /\ length_buffer' = smoothed
                  /\ obs' = [obs EXCEPT
                                !.ncalls = @ + 1,
                                !.enc = walk_record(
                                    Len(src), smoothed, 0, 0, 0, 0, << >>,
                                    "begin", MinOf(touched), MaxOf(touched),
                                    -1)]
    /\ UNCHANGED <<encoded_buffer_length, full_length_buffer, encoded, ret,
                   decoded, instances, threads>>

\* one pass of the while loop: the three tests, then one case of the switch
WalkPass ==
    /\ pc = "walking"
    /\ obs.enc.current_length < obs.enc.source_integers
    /\ LET w == obs.enc
           i == w.current_length
           t == indices_of_tail(length_buffer, w.source_integers, i)
       IN  \E T \in {tail_promotion(length_buffer, w.source_integers, i)} :
           IF T[i] \notin DOMAIN planner_case
           THEN /\ pc' = "exited"
                /\ length_buffer' = T
                /\ obs' = obs
           ELSE \E s \in {planner_switch(T, i)} :
                \E touched \in {t \cup lookahead(T, i)
                                  \cup indices_of_stores(T, i, s)} :
                /\ pc' = pc
                /\ length_buffer' = s.L
                /\ obs' = [obs EXCEPT !.enc = walk_record(
                       w.source_integers, w.smoothed, s.i, w.passes + 1,
                       IF s.i = i THEN w.run + 1 ELSE 0,
                       IF s.i = i THEN maximum(w.longest, w.run + 1)
                                  ELSE w.longest,
                       IF s.i = i THEN w.blocks
                       ELSE Append(w.blocks,
                                   [start |-> i, bits |-> s.L[i]]),
                       IF s.i = i THEN "promoted" ELSE "advanced",
                       MinOf({w.lo} \cup touched),
                       MaxOf({w.hi} \cup touched),
                       MaxOf({w.ahead} \cup lookahead(T, i)))]
    /\ UNCHANGED <<source, encoded_buffer_length, length_buffer_length,
                   full_length_buffer, encoded, ret, decoded, instances,
                   threads>>

\* the cursor is at or beyond the last length: the while loop is left
WalkEnd ==
    /\ pc = "walking"
    /\ obs.enc.current_length >= obs.enc.source_integers
    /\ pc' = "planned"
    /\ UNCHANGED <<source, encoded_buffer_length, length_buffer,
                   length_buffer_length, full_length_buffer, encoded, ret,
                   decoded, obs, instances, threads>>

\* the rest of encode: the run-length coder, its calls of write_out and the
\* copy of the selectors; encode returns
WalkPack ==
    /\ pc = "planned"
    /\ \E st \in {run_length_coder(
                      [destination |-> << >>,
                       length_buffer |-> length_buffer,
                       keys |-> keys_at_start(Len(source)),
                       full_length_buffer |-> full_length_buffer,
                       blocks |-> << >>, calls |-> << >>,
                       src_hi |-> -1, pad_hi |-> -1, pad_unset |-> FALSE,
                    aborted |-> FALSE],
                      source, U32(0), 0, 1, length_buffer[0])} :
          /\ pc' = IF st.aborted THEN "exited" ELSE "returned"
          /\ length_buffer' = st.length_buffer
          /\ full_length_buffer' = st.full_length_buffer
          /\ encoded' = IF st.aborted THEN st.destination
                        ELSE copy_backwards(st.destination, st.length_buffer,
                                            st.keys)
          /\ ret' = IF st.aborted THEN 0 ELSE Len(encoded')
    /\ UNCHANGED <<source, encoded_buffer_length, length_buffer_length,
                   decoded, obs, instances, threads>>

NextWalk == WalkBegin \/ WalkPass \/ WalkEnd \/ WalkPack

\* the passes of the loop follow each other on the calling thread
SpecWalk == Init /\ [][NextWalk]_vars /\ WF_vars(WalkPass) /\ WF_vars(WalkEnd)

(***************************************************************************)
(* What the claims speak of                                                *)
(***************************************************************************)
\* encode has returned to its caller
Returned == pc \in {"returned", "decoded"}

\* the caller has decoded the bytes encode returned, with the length returned
DecodedReturned == pc = "decoded" /\ obs.dec.len = ret

\* the integers per block of width w, n(w)
n(w) == table[w].integers

\* the payload size the specification gives a block of width w
payload_size(w) == IF w = 0 THEN 0 ELSE IF w \in {7, 9, 12, 21} THEN 32 ELSE 16

\* the bytes stored for the first k blocks
RECURSIVE payload_bytes(_, _)
payload_bytes(blocks, k) ==
    IF k <= 0 THEN 0 ELSE payload_bytes(blocks, k - 1) + blocks[k].bytes

\* the bytes the specification gives the first k blocks
RECURSIVE payload_sizes(_, _)
payload_sizes(blocks, k) ==
    IF k <= 0 THEN 0
    ELSE payload_sizes(blocks, k - 1) + payload_size(blocks[k].bits)

\* the blocks of the run write_out was called for
run_blocks(call) == (call.raw_count + n(call.bits) - 1) \div n(call.bits)

\* the selectors of a run of B blocks
run_selectors(B) == (B + 15) \div 16

\* the blocks of the calls before the c-th
RECURSIVE blocks_before(_, _)
blocks_before(calls, c) ==
    IF c <= 1 THEN 0
    ELSE blocks_before(calls, c - 1) + run_blocks(calls[c - 1])

\* the legal widths W
W == {1, 2, 3, 4, 5, 6, 7, 8, 9, 10, 12, 16, 21, 32}

\* v <= 2^w - 1
fits(v, w) == v \subseteq 0 .. (w - 1)

\* the smallest legal width v fits in, and 0 for the value 1
classify(v) ==
    IF v = x01 THEN 0
    ELSE CHOOSE w \in W : fits(v, w) /\ \A u \in W : fits(v, u) => w <= u

(***************************************************************************)
(* C1                                                                      *)
(***************************************************************************)
\* C1: whenever encode has returned for a source S of N integers and the
\* caller decodes the returned bytes with the returned length, the first N
\* integers decode stores are S (the destination is long enough for all that
\* decode stores).
C1_RoundTrip ==
    DecodedReturned =>
        /\ Len(decoded) >= Len(source)
        /\ \A i \in 1 .. Len(source) : decoded[i] = source[i]

\* a source of two runs of different widths, of more than one block, decoded
C1_Witness ==
    /\ DecodedReturned
    /\ ret <= encoded_buffer_length
    /\ Len(obs.enc.calls) >= 2
    /\ Len(obs.enc.blocks) >= 3
    /\ \E i \in 1 .. Len(source) : source[i] \notin {U32(0), x01}
    /\ \A i \in 1 .. Len(source) : decoded[i] = source[i]

(***************************************************************************)
(* C2                                                                      *)
(***************************************************************************)
\* C2: when the payload bytes plus the selector bytes of the encoded
\* sequence exceed encoded_buffer_length, encode returns 0 and stores no byte
\* at an offset >= encoded_buffer_length.
C2_OverflowReturnsZero ==
    (Returned
     /\ payload_bytes(obs.enc.blocks, Len(obs.enc.blocks)) + obs.enc.keys
           > encoded_buffer_length)
        => (ret = 0 /\ Len(encoded) <= encoded_buffer_length)

(***************************************************************************)
(* C3                                                                      *)
(***************************************************************************)
\* C3: when decode is given the bytes and the length encode returned, every
\* selector it reads and every byte of every 16-byte load lies at an offset
\* < the length, and no load reaches past the selector cursor.
C3_LoadsInBounds ==
    DecodedReturned =>
        /\ \A k \in 1 .. Len(obs.dec.selectors) :
              /\ 0 <= obs.dec.selectors[k].off
              /\ obs.dec.selectors[k].off < obs.dec.len
        /\ \A k \in 1 .. Len(obs.dec.loads) :
              /\ obs.dec.loads[k].off + 15 < obs.dec.len
              /\ obs.dec.loads[k].off + 15 <= obs.dec.loads[k].keys

(***************************************************************************)
(* C4                                                                      *)
(***************************************************************************)
\* C4: every block encode stores takes payload_size(width) bytes, the last,
\* zero-padded block too, and the value returned is the sum of these sizes
\* plus the number of selectors.
C4_PayloadSizes ==
    Returned =>
        /\ \A k \in 1 .. Len(obs.enc.blocks) :
              obs.enc.blocks[k].bytes = payload_size(obs.enc.blocks[k].bits)
        /\ ret = payload_sizes(obs.enc.blocks, Len(obs.enc.blocks))
                 + obs.enc.keys

(***************************************************************************)
(* C5                                                                      *)
(***************************************************************************)
\* C5: the bytes encode returns are the payloads in block order from offset
\* 0, then the M selectors, the j-th stored (0 <= j < M) at offset
\* len - 1 - j, and nothing else; the byte at len - 1 selects the first block,
\* and decode reads the selectors from offset len - 1 down, in the order they
\* were stored, taking the payload of the first from offset 0.
C5_Layout ==
    Returned =>
        LET M == obs.enc.keys
            P == payload_bytes(obs.enc.blocks, Len(obs.enc.blocks))
        IN  /\ ret = Len(encoded)
            /\ ret = P + M
            /\ \A j \in 0 .. (M - 1) : encoded[ret - j] = length_buffer[j]
            /\ M > 0 =>
                  encoded[ret] \div 16 = table[obs.enc.blocks[1].bits].type
            /\ DecodedReturned =>
                  /\ Len(obs.dec.selectors) = M
                  /\ \A k \in 1 .. M :
                        /\ obs.dec.selectors[k].off = ret - k
                        /\ obs.dec.selectors[k].key = length_buffer[k - 1]
                  /\ M > 0 => obs.dec.selectors[1].in = 0

\* at least three selectors, not the same read backwards, after payloads
C5_Witness ==
    /\ Returned
    /\ obs.enc.keys >= 3
    /\ length_buffer[0] # length_buffer[obs.enc.keys - 1]
    /\ ret > obs.enc.keys + 32
    /\ encoded[ret] = length_buffer[0]

(***************************************************************************)
(* C6                                                                      *)
(***************************************************************************)
\* C6: the run of B blocks of width w that write_out is called for stores
\* ceil(B / 16) selectors, each (type << 4) | (~(R - 1) & 0x0F) with type the
\* table index of w, in 0 .. 14, and R = 16 for all but the last, whose R is
\* what remains of B (1 .. 16); the runs' selectors follow each other and
\* their blocks are the blocks stored.
C6_Selectors ==
    Returned =>
        LET calls == obs.enc.calls
        IN  /\ \A c \in 1 .. Len(calls) :
                  LET B == run_blocks(calls[c])
                      M == run_selectors(B)
                      first == calls[c].first_key
                      type == table[calls[c].bits].type
                      before == blocks_before(calls, c)
                  IN  /\ type \in 0 .. 14
                      /\ B >= 1
                      /\ first = IF c = 1 THEN 0
                                 ELSE calls[c - 1].first_key
                                      + run_selectors(run_blocks(calls[c - 1]))
                      /\ first + M = IF c = Len(calls) THEN obs.enc.keys
                                     ELSE calls[c + 1].first_key
                      /\ \A j \in 0 .. (M - 1) :
                            LET R == IF j < M - 1 THEN 16 ELSE B - 16 * (M - 1)
                            IN  /\ R \in 1 .. 16
                                /\ length_buffer[first + j]
                                      = type * 16 + (15 - (R - 1))
                      /\ \A k \in (before + 1) .. (before + B) :
                            obs.enc.blocks[k].bits = calls[c].bits
            /\ Len(obs.enc.blocks) = blocks_before(calls, Len(calls) + 1)

\* two blocks of width 1 give the single selector 0x1E
C6_Example_1E ==
    /\ Returned
    /\ Len(obs.enc.calls) = 1
    /\ obs.enc.calls[1].bits = 1
    /\ run_blocks(obs.enc.calls[1]) = 2
    /\ obs.enc.keys = 1
    /\ length_buffer[0] = 30

\* a run of 17 blocks: the selectors 0xE0 and 0xEF
C6_Witness ==
    /\ Returned
    /\ Len(obs.enc.calls) = 1
    /\ run_blocks(obs.enc.calls[1]) = 17
    /\ obs.enc.keys = 2
    /\ length_buffer[0] = 224
    /\ length_buffer[1] = 239

(***************************************************************************)
(* C7                                                                      *)
(***************************************************************************)
\* C7: bits_needed_for gives every uint32_t other than 1 the smallest width
\* of W it fits in (1 to the value 0, 32 to every value from 2^21 on), gives
\* 0 to the value 1 and to no other, and gives nothing outside W and 0.
C7_Classifier ==
    Returned =>
        /\ Len(obs.enc.lengths) = Len(source)
        /\ \A i \in 1 .. Len(source) :
              LET v == source[i]
                  w == obs.enc.lengths[i]
              IN  /\ w = classify(v)
                  /\ w \in W \cup {0}
                  /\ (w = 0) <=> (v = x01)
                  /\ v = U32(0) => w = 1
                  /\ (\E b \in v : b >= 21) => w = 32

\* the value 2^21, the first to need 32 bits, has been classified
C7_Witness ==
    /\ Returned
    /\ source = <<{21}>>
    /\ obs.enc.lengths = <<32>>

(***************************************************************************)
(* C8                                                                      *)
(***************************************************************************)
\* C8: for a source of N >= 1 integers, decoding what encode returned stores
\* T integers with N <= T <= N + n(w_last) - 1, w_last the width of the last
\* block; so at most 255 integers are stored past position N - 1.
C8_DecodedCount ==
    (DecodedReturned /\ Len(source) >= 1) =>
        LET N == Len(source)
            T == Len(decoded)
            w_last == obs.enc.blocks[Len(obs.enc.blocks)].bits
        IN  /\ N <= T
            /\ T <= N + n(w_last) - 1
            /\ T - N <= 255

\* a source whose last block is padded, and one of a whole number of blocks,
\* of several blocks under one selector
C8_Witness ==
    /\ DecodedReturned
    /\ Len(source) >= 1
    /\ Len(decoded) > Len(source)
    /\ obs.dec.bodies > obs.dec.iterations
    /\ Len(obs.enc.blocks) >= 2

\* more than 200 integers stored past the source's: a last block of ones
C8_Example_Overrun ==
    /\ DecodedReturned
    /\ Len(source) >= 1
    /\ Len(decoded) > Len(source) + 200

(***************************************************************************)
(* C9                                                                      *)
(***************************************************************************)
\* C9: encode called with no integer returns 0, stores nothing and reads no
\* element of the source array; decode called with a length of 0 runs no
\* iteration of its loop and stores nothing.
C9_EmptyInput ==
    /\ (obs.ncalls > 0 /\ source = << >>) =>
          /\ Returned
          /\ ret = 0
          /\ encoded = << >>
          /\ obs.enc.src_hi = -1
    /\ (pc = "decoded" /\ obs.dec.len = 0) =>
          /\ obs.dec.iterations = 0
          /\ obs.dec.loads = << >>
          /\ decoded = << >>

\* the decode half of C9 alone: a length of 0 is a no-op
C9_DecodeNothing ==
    (pc = "decoded" /\ obs.dec.len = 0) =>
        /\ obs.dec.iterations = 0
        /\ obs.dec.loads = << >>
        /\ decoded = << >>

(***************************************************************************)
(* C10                                                                     *)
(***************************************************************************)
\* what a fresh instance makes of the source of the last call
on_fresh_instance ==
    encode([length_buffer |-> NULL, length_buffer_length |-> 0,
            full_length_buffer |-> NULL], source, obs.enc.oob)

\* C10: whatever calls the instance has served, the last call ends as it
\* does on a fresh instance, with the same bytes and the same length.
C10_HistoryIndependent ==
    obs.ncalls > 0 =>
        /\ on_fresh_instance.outcome = (IF Returned THEN "returned" ELSE pc)
        /\ on_fresh_instance.encoded = encoded
        /\ on_fresh_instance.ret = ret

\* C10 for the sources of at least one integer
C10_NonEmpty ==
    (obs.ncalls > 0 /\ Len(source) >= 1) =>
        /\ on_fresh_instance.outcome = (IF Returned THEN "returned" ELSE pc)
        /\ on_fresh_instance.encoded = encoded
        /\ on_fresh_instance.ret = ret

\* a second call, of a shorter source than the first: the width buffer and
\* the padding buffer hold what the first call left
C10_NonEmpty_Witness ==
    /\ obs.ncalls = 2
    /\ Returned
    /\ Len(source) >= 1
    /\ Len(source) < length_buffer_length
    /\ obs.enc.pad_hi >= 0

(***************************************************************************)
(* C11                                                                     *)
(***************************************************************************)
\* the lengths from index i on are blocks [i, i + n(w)) of one width w = L[i]
\* each, up to the first block that ends at or beyond N
RECURSIVE tiled(_, _, _)
tiled(L, N, i) ==
    IF i >= N THEN TRUE
    ELSE /\ L[i] \in Widths
         /\ \A j \in i .. (i + n(L[i]) - 1) : L[j] = L[i]
         /\ tiled(L, N, i + n(L[i]))

\* the index after the maximal run of equal lengths that starts at i
run_stop(L, N, i) ==
    IF \A j \in i .. (N - 1) : L[j] = L[i] THEN N
    ELSE CHOOSE e \in (i + 1) .. (N - 1) :
             L[e] # L[i] /\ \A j \in i .. (e - 1) : L[j] = L[i]

\* the source integers of the calls of write_out before the c-th
RECURSIVE integers_before(_, _)
integers_before(calls, c) ==
    IF c <= 1 THEN 0
    ELSE integers_before(calls, c - 1) + calls[c - 1].raw_count

\* C11: when the promotion walk is over, the width buffer from index 0 is a
\* sequence of blocks [i, i + n(w)) with w = L[i], every entry of a block
\* equal to w, the last block the first to end at or beyond N; every maximal
\* run of equal widths that ends before N is a whole number of blocks, and
\* these runs are the runs write_out is called for.
C11_Tiling ==
    Returned =>
        LET L == obs.enc.walked
            N == Len(source)
            calls == obs.enc.calls
        IN  /\ tiled(L, N, 0)
            /\ \A i \in 0 .. (N - 1) :
                  (i = 0 \/ L[i - 1] # L[i]) =>
                      LET e == run_stop(L, N, i)
                      IN  e < N => (e - i) % n(L[i]) = 0
            /\ \A c \in 1 .. Len(calls) :
                  LET i == integers_before(calls, c)
                  IN  /\ calls[c].bits = L[i]
                      /\ i + calls[c].raw_count = run_stop(L, N, i)
                      /\ c < Len(calls) => calls[c].raw_count % n(L[i]) = 0
            /\ N >= 1 => integers_before(calls, Len(calls) + 1) = N

\* three runs of different widths, the first of more than one block, where
\* the walk raised lengths of the source
C11_Witness ==
    /\ Returned
    /\ Len(obs.enc.calls) >= 3
    /\ obs.enc.calls[1].raw_count >= 2 * n(obs.enc.calls[1].bits)
    /\ \E k \in 1 .. Len(source) : obs.enc.plan[k] > obs.enc.lengths[k]
    /\ tiled(obs.enc.walked, Len(source), 0)

(***************************************************************************)
(* C12                                                                     *)
(***************************************************************************)
\* C12: the planned width of every source integer is at least the width
\* bits_needed_for gave it; every source integer write_out packs at a width
\* w >= 1 is < 2^w and every one it covers by a block of width 0 is 1.
C12_Fit ==
    Returned =>
        /\ \A k \in 1 .. Len(source) :
              /\ obs.enc.plan[k] >= obs.enc.lengths[k]
              /\ obs.enc.plan[k] >= classify(source[k])
        /\ \A c \in 1 .. Len(obs.enc.calls) :
              LET call == obs.enc.calls[c]
                  i == integers_before(obs.enc.calls, c)
              IN  \A k \in (i + 1) .. Min(i + call.raw_count, Len(source)) :
                      IF call.bits = 0 THEN source[k] = x01
                      ELSE fits(source[k], call.bits)

\* a block of width 0 and a block of a width the walk raised, in one source
C12_Witness ==
    /\ Returned
    /\ \E c \in 1 .. Len(obs.enc.calls) : obs.enc.calls[c].bits = 0
    /\ \E k \in 1 .. Len(source) :
          /\ obs.enc.plan[k] > obs.enc.lengths[k]
          /\ source[k] # U32(0)
          /\ obs.enc.plan[k] < 32

(***************************************************************************)
(* C13                                                                     *)
(***************************************************************************)
\* the last encode of the first k calls of a history when its decode calls
\* are left out: the outcome of that encode, on the instance the encodes
\* before it left
RECURSIVE replay_encodes(_, _)
replay_encodes(history, k) ==
    IF k = 0
    THEN encode(fresh_instance, << >>, {}) @@ [none |-> TRUE]
    ELSE IF history[k].op = "decode"
    THEN replay_encodes(history, k - 1)
    ELSE Eval(replay_encodes(history, k - 1), LAMBDA before :
              encode(IF "none" \in DOMAIN before THEN fresh_instance
                     ELSE [length_buffer |-> before.length_buffer,
                           length_buffer_length |->
                               before.length_buffer_length,
                           full_length_buffer |-> before.full_length_buffer],
                     history[k].source, history[k].oob))

\* C13: a decode call leaves the width buffer, its recorded length and the
\* padding buffer as they were, and every encode call returns what it
\* returns in the same sequence of calls with the decode calls left out.
C13_DecodeFrame ==
    /\ [][pc' = "decoded" /\ pc # "decoded" =>
              UNCHANGED <<length_buffer, length_buffer_length,
                          full_length_buffer>>]_vars
    /\ []((obs.ncalls > 0 /\ pc # "decoded") =>
              LET r == replay_encodes(obs.history, Len(obs.history))
              IN  /\ r.outcome = pc
                  /\ r.encoded = encoded
                  /\ r.ret = ret
                  /\ r.length_buffer = length_buffer
                  /\ r.length_buffer_length = length_buffer_length
                  /\ r.full_length_buffer = full_length_buffer)

\* an encode, a decode of what it returned, and a second encode, on a buffer
\* the first call allocated
C13_Witness ==
    /\ Len(obs.history) = 3
    /\ obs.history[1].op = "encode"
    /\ obs.history[2].op = "decode"
    /\ obs.history[3].op = "encode"
    /\ pc = "returned"
    /\ Len(source) >= 1
    /\ Len(source) <= length_buffer_length
    /\ Len(obs.enc.blocks) >= 2

(***************************************************************************)
(* C14                                                                     *)
(***************************************************************************)
\* what the calls of thread t return when no other thread runs
alone(t) == encode(fresh_instance, threads[t].source, U32(0))

\* C14: under every interleaving of the steps of two threads that call
\* encode and decode on an instance each, every thread's encode returns the
\* bytes and the length it returns when run alone and leaves its instance
\* as it does then, and its decode stores what the decode of these bytes
\* stores.
C14_Threads ==
    \A t \in Threads :
        /\ threads[t].at # "exited"
        /\ threads[t].at \in {"returned", "decoded"} =>
              /\ threads[t].encoded = alone(t).encoded
              /\ threads[t].ret = alone(t).ret
              /\ instances[t].length_buffer = alone(t).length_buffer
              /\ instances[t].full_length_buffer = alone(t).full_length_buffer
        /\ threads[t].at = "decoded" =>
              \E junk \in JunkBytes :
                  threads[t].decoded
                      = decode(alone(t).encoded, alone(t).ret, junk).to

\* thread 1 has returned from encode while thread 2, encoding another
\* source, is between storing its lengths and packing them
C14_Witness ==
    /\ threads[1].at = "returned"
    /\ threads[2].at \in {"smooth", "walk", "pack"}
    /\ threads[1].source # threads[2].source
    /\ threads[1].ret > 1

(***************************************************************************)
(* C15                                                                     *)
(***************************************************************************)
\* the source is 256 * k ones
ones_blocks(k) == source = Rep(x01, 256 * k)

C15_Example_0F == ones_blocks(1) /\ Returned /\ encoded = <<15>>

(***************************************************************************)
(* C16                                                                     *)
(***************************************************************************)
\* C16: every integer that the decode of the bytes encode returned stores
\* at a destination index >= N equals 0.
C16_TailZero ==
    DecodedReturned =>
        \A i \in (Len(source) + 1) .. Len(decoded) : decoded[i] = U32(0)

\* 300 ones have been decoded and the 212 integers stored after them are
\* ones
C16_Example_Ones ==
    /\ DecodedReturned
    /\ source = Rep(x01, 300)
    /\ Len(decoded) = 512
    /\ \A i \in 301 .. 512 : decoded[i] = x01

\* the single integer 0 has been decoded and the integer stored after it is
\* the selector byte 0x8F
C16_Example_Selector ==
    /\ DecodedReturned
    /\ source = <<U32(0)>>
    /\ encoded = <<0, 143>>
    /\ decoded[2] = U32(143)

(***************************************************************************)
(* C17                                                                     *)
(***************************************************************************)
\* the selectors of the calls before the c-th
RECURSIVE selectors_before(_, _)
selectors_before(calls, c) ==
    IF c <= 1 THEN 0
    ELSE selectors_before(calls, c - 1)
         + run_selectors(run_blocks(calls[c - 1]))

\* C17, as stated: in every stream encode produces, the number of selector
\* bytes equals the number of blocks.
C17_SelectorPerBlock == Returned => obs.enc.keys = Len(obs.enc.blocks)

\* C17, amended: a selector covers up to 16 blocks of a run, so the number
\* of selector bytes is the sum over the runs of ceil(B / 16), which is at
\* most the number of blocks and at least a 16th of it, and equals it only
\* when every run is a single block; the selector bytes and the payload
\* bytes together are the encoded length.
C17_SelectorsCoverBlocks ==
    Returned =>
        LET calls == obs.enc.calls
            blocks == obs.enc.blocks
        IN  /\ obs.enc.keys = selectors_before(calls, Len(calls) + 1)
            /\ obs.enc.keys <= Len(blocks)
            /\ Len(blocks) <= 16 * obs.enc.keys
            /\ obs.enc.keys = Len(blocks)
                  <=> \A c \in 1 .. Len(calls) : run_blocks(calls[c]) = 1
            /\ obs.enc.keys + payload_bytes(blocks, Len(blocks)) = ret
            /\ ret = Len(encoded)

\* 17 blocks of one width under two selectors
C17_Witness ==
    /\ Returned
    /\ Len(obs.enc.calls) = 1
    /\ Len(obs.enc.blocks) = 17
    /\ obs.enc.keys = 2

(***************************************************************************)
(* C19                                                                     *)
(***************************************************************************)
\* W[t], with 0 for the type of the implicit ones
width_of(t) == CHOOSE w \in Widths : table[w].type = t

\* the cursors after the i-th iteration of the decode loop
in_after(i) ==
    IF i < Len(obs.dec.selectors) THEN obs.dec.selectors[i + 1].in
    ELSE obs.dec.in

to_after(i) ==
    IF i < Len(obs.dec.selectors) THEN obs.dec.selectors[i + 1].to
    ELSE Len(decoded)

\* the bodies the selectors read stand for
RECURSIVE bodies_of(_, _)
bodies_of(selectors, i) ==
    IF i <= 0 THEN 0
    ELSE bodies_of(selectors, i - 1) + (16 - (selectors[i].key % 16))

\* the caller was handed the stream
Received == obs.ncalls = 0 /\ pc \in {"returned", "decoded"}

\* C19: the iteration of the decode loop that reads the selector
\* (t << 4) | k, t in 0 .. 14, performs 16 - k bodies of width W[t]: the
\* payload cursor advances by (16 - k) * payload_bytes(W[t]), the output
\* cursor by (16 - k) * n(W[t]), every integer stored fits W[t] bits (and is
\* 1 for width 0), and is 2^W[t] - 1 on a payload of 0xFF bytes; the decode
\* of a stream encode wrote performs as many bodies as encode wrote blocks.
C19_SelectorBodies ==
    DecodedReturned =>
        /\ \A i \in 1 .. Len(obs.dec.selectors) :
              LET sel == obs.dec.selectors[i]
                  t == sel.key \div 16
                  k == sel.key % 16
                  w == width_of(t)
              IN  t \in 0 .. 14 =>
                      /\ in_after(i) - sel.in = (16 - k) * payload_size(w)
                      /\ to_after(i) - sel.to = (16 - k) * n(w)
                      /\ \A x \in (sel.to + 1) .. to_after(i) :
                            IF w = 0 THEN decoded[x] = x01
                            ELSE fits(decoded[x], w)
        /\ obs.dec.bodies = bodies_of(obs.dec.selectors, obs.dec.iterations)
        /\ Received =>
              /\ obs.dec.iterations = 1
              /\ obs.dec.selectors[1].key = encoded[ret]
              /\ (/\ encoded[ret] \div 16 # 15
                  /\ \A i \in 1 .. (ret - 1) : encoded[i] = 255) =>
                     \A x \in 1 .. Len(decoded) :
                         LET w == width_of(encoded[ret] \div 16)
                         IN  decoded[x] = IF w = 0 THEN x01 ELSE 0 .. (w - 1)
        /\ ~Received => obs.dec.bodies = Len(obs.enc.blocks)

\* a stream of one selector 0xD3 above the 13 payloads of 32 bytes of its
\* bodies has been decoded to 13 * 12 integers
C19_Witness ==
    /\ Received
    /\ pc = "decoded"
    /\ encoded[ret] = 13 * 16 + 3
    /\ ret = 13 * 32 + 1
    /\ obs.dec.bodies = 13
    /\ Len(decoded) = 13 * 12

\* a stream encode wrote, of two selectors for 17 blocks, has been decoded
C19_Witness_Encoded ==
    /\ DecodedReturned
    /\ ~Received
    /\ obs.dec.iterations = 2
    /\ obs.dec.bodies = 17

(***************************************************************************)
(* C18                                                                     *)
(***************************************************************************)
\* the stream with k2 as the low nibble of the selector read first
low_nibble(k2) == [encoded EXCEPT ![ret] = (@ \div 16) * 16 + k2]

\* what decode does on that stream
decode_low_nibble(k2) ==
    Eval(low_nibble(k2), LAMBDA stream : decode(stream, ret, obs.dec.junk))

\* the first iteration of the decode loop on that stream
first_iteration(k2) ==
    Eval(low_nibble(k2), LAMBDA stream :
         dispatch_step(decode_start(ret), stream, ret, obs.dec.junk))

\* the low nibbles next to one
nibbles_about(low) == {x \in {low - 1, low + 1} : x \in 0 .. 15}

InLoop == pc \in {"decoding", "decoded"}

\* where the loop stands, M being the selector bytes encode stored
LoopCount ==
    InLoop =>
        LET M == obs.enc.keys
            done == obs.dec.iterations
        IN  /\ done <= M
            /\ (pc = "decoding" /\ done < M) =>
                  loop_condition(obs.dec.in, obs.dec.keys)
            /\ (pc = "decoding" /\ done = M) =>
                  ~loop_condition(obs.dec.in, obs.dec.keys)
            /\ pc = "decoded" => done = M
            /\ \A i \in 1 .. done :
                  /\ obs.dec.selectors[i].off = ret - i
                  /\ obs.dec.selectors[i].off >= ret - M
                  /\ obs.dec.selectors[i].key = length_buffer[i - 1]
                  /\ obs.dec.selectors[i].in <= obs.dec.selectors[i].off
            /\ pc = "decoded" =>
                  decoded = decode(encoded, ret, obs.dec.junk).to

\* C20: on every stream encode returned, with M selector bytes, the decode
\* loop runs exactly M iterations and then ends: in <= keys holds before
\* each of the M selector reads, it fails after the M-th, every selector
\* read is one of the M bytes at the end of the stream, and a decode that
\* has entered its loop returns.
C20_LoopTerminates ==
    /\ []LoopCount
    /\ (pc = "decoding") ~> (pc = "decoded")

\* the last selector, of width 0, is about to be read with in = keys, after
\* a selector with payload
C20_Witness ==
    /\ pc = "decoding"
    /\ obs.enc.keys >= 2
    /\ obs.dec.iterations = obs.enc.keys - 1
    /\ obs.dec.in = obs.dec.keys
    /\ obs.dec.in > 0
    /\ encoded[obs.dec.keys + 1] \div 16 = 0

(***************************************************************************)
(* C21                                                                     *)
(***************************************************************************)
\* C21: for every width w of W and every block of n(w) values below 2^w, the
\* body of a case label of w applied to the 16 or 32 bytes write_out packs
\* for the block stores exactly these n(w) values, in their order.
C21_BlockRoundTrip ==
    pc \in {"packed", "unpacked"} =>
        LET w == obs.enc.blocks[1].bits
        IN  /\ w \in W
            /\ Len(source) = n(w)
            /\ \A i \in 1 .. n(w) : fits(source[i], w)
            /\ ret = payload_size(w)
            /\ pc = "unpacked" => decoded = source

\* a block of width 21, whose ninth value has all 21 bits set and is split
\* over the two words, has been packed to 32 bytes and unpacked
C21_Witness ==
    /\ pc = "unpacked"
    /\ obs.enc.blocks[1].bits = 21
    /\ ret = 32
    /\ Len(decoded) = 12
    /\ source[9] = 0 .. 20
    /\ \E i \in 1 .. 12 : source[i] # source[9]

\* a block of width 1 of 128 values, unpacked by 64-bit shifts
C21_Witness_Shift64 ==
    /\ pc = "unpacked"
    /\ obs.enc.blocks[1].bits = 1
    /\ Len(decoded) = 128
    /\ \E i \in 1 .. 128 : decoded[i] # decoded[128]

(***************************************************************************)
(* C22                                                                     *)
(***************************************************************************)
\* the widths that have a row in table and a case in the planner's switch
Legal == {0, 1, 2, 3, 4, 5, 6, 7, 8, 9, 10, 12, 16, 21, 32}

\* C22: encode never takes the planner's default branch nor write_out's
\* size_in_bits > 32 branch (the call does not exit); every width in the
\* width buffer after the walk, and every width write_out is called with,
\* is one of the 15 legal widths (never 64), with a table row of more than
\* 0 integers.
C22_LegalWidths ==
    /\ pc # "exited"
    /\ Returned =>
          /\ \A x \in 0 .. (Len(source) + WASTAGE - 1) :
                obs.enc.walked[x] \in Legal
          /\ \A i \in 1 .. Len(source) :
                obs.enc.lengths[i] \in Legal /\ obs.enc.plan[i] \in Legal
          /\ \A c \in 1 .. Len(obs.enc.calls) :
                /\ obs.enc.calls[c].bits \in Legal
                /\ table[obs.enc.calls[c].bits].integers > 0
          /\ \A b \in 1 .. Len(obs.enc.blocks) :
                obs.enc.blocks[b].bits \in Legal

\* values of 32 bits next to narrower ones: the walk has raised widths to
\* 32 and encode has returned
C22_Witness ==
    /\ Returned
    /\ \E i \in 1 .. Len(source) :
          obs.enc.lengths[i] < 32 /\ obs.enc.plan[i] = 32
    /\ \E c \in 1 .. Len(obs.enc.calls) : obs.enc.calls[c].bits = 32

(***************************************************************************)
(* C23                                                                     *)
(***************************************************************************)
\* a pass of the while loop: the planner is in the loop before and after
a_pass == pc = "walking" /\ pc' = "walking"

\* the pass stored a larger legal width in the four lengths at the cursor
\* and left the cursor there
promoted ==
    LET i == obs.enc.current_length
    IN  /\ obs'.enc.current_length = i
        /\ length_buffer'[i] \in Legal
        /\ \A k \in 0 .. 3 :
              /\ length_buffer'[i + k] = length_buffer'[i]
              /\ length_buffer'[i + k] > length_buffer[i + k]

\* the pass moved the cursor by the integers of a block of the width there
advanced ==
    LET i == obs.enc.current_length
    IN  /\ length_buffer'[i] \in Legal
        /\ n(length_buffer'[i]) >= 4
        /\ obs'.enc.current_length = i + n(length_buffer'[i])

\* C23: the promotion walk terminates; every pass of the while loop either
\* promotes the four widths at the cursor to a strictly larger legal width
\* or advances the cursor by n(w) >= 4, no more than 14 promotions follow
\* each other without an advance, and the passes are at most
\* 15 * ceil(N / 4).
C23_WalkTerminates ==
    /\ [][a_pass => (promoted \/ advanced)]_vars
    /\ [](pc \in {"walking", "planned", "returned"} =>
             /\ obs.enc.run <= 14
             /\ obs.enc.longest <= 14
             /\ obs.enc.passes
                   <= 15 * ((obs.enc.source_integers + 3) \div 4))
    /\ (pc = "walking" ~> pc = "planned")

\* a walk has ended in which 14 promotions, of 0 up to 32, were made at one
\* cursor, and a later pass advanced
C23_Witness ==
    /\ pc = "returned"
    /\ obs.enc.longest = 14
    /\ obs.enc.last = "advanced"
    /\ Len(obs.enc.blocks) >= 2
    /\ obs.enc.passes > Len(obs.enc.blocks)

(***************************************************************************)
(* C24                                                                     *)
(***************************************************************************)
\* every width S holds in [i, i + n(w)) is at most w
covers(S, i, w) == \A x \in i .. (i + n(w) - 1) : S[x] <= w

\* the least legal width, from the one at i up, that covers its own block
least_width(S, i) ==
    CHOOSE w \in Legal :
        /\ w >= S[i]
        /\ covers(S, i, w)
        /\ \A u \in Legal : (u >= S[i] /\ covers(S, i, u)) => w <= u

\* the legal width that follows w
next_width(w) ==
    CHOOSE u \in Legal : u > w /\ \A v \in Legal : v > w => u <= v

\* C24: a block settled at a cursor i with N - i >= 16 has the least legal
\* width w that is at least the quad-smoothed width at i and at least every
\* quad-smoothed width in [i, i + n(w)); each promotion there stores the
\* legal width that follows the one it found.
C24_GreedyPromotion ==
    /\ [](pc \in {"walking", "planned", "returned"} =>
             \A b \in 1 .. Len(obs.enc.blocks) :
                 LET blk == obs.enc.blocks[b]
                 IN  obs.enc.source_integers - blk.start >= 16 =>
                         blk.bits = least_width(obs.enc.smoothed, blk.start))
    /\ [][(/\ a_pass
            /\ obs'.enc.current_length = obs.enc.current_length
            /\ obs.enc.source_integers - obs.enc.current_length >= 16)
           => length_buffer'[obs.enc.current_length]
                = next_width(length_buffer[obs.enc.current_length])]_vars

\* a block of width 8 settled where the smoothed width was 7 and 16 or more
\* integers remained: a wider width lies within the 36 lengths that case 7
\* scans and beyond the 16 that case 8 scans
C24_Witness ==
    /\ pc = "planned"
    /\ \E b \in 1 .. Len(obs.enc.blocks) :
          LET blk == obs.enc.blocks[b]
          IN  /\ obs.enc.source_integers - blk.start >= 16
              /\ obs.enc.smoothed[blk.start] = 7
              /\ blk.bits = 8
              /\ ~covers(obs.enc.smoothed, blk.start, 7)
              /\ \E x \in blk.start .. (blk.start + n(7) - 1) :
                    obs.enc.smoothed[x] > 8

(***************************************************************************)
(* C25                                                                     *)
(***************************************************************************)
\* the width the tail rule gives a block that starts at i with the widths S
\* ahead of it
tail_width(S, source_integers, i) ==
    LET remaining == source_integers - i
        next_8 == largest_of(S, i, 8)
        next_16 == largest_of(S, i, 16)
    IN  IF remaining < 4
        THEN IF next_8 <= 8 THEN 8 ELSE IF next_8 <= 16 THEN 16 ELSE 32
        ELSE IF remaining < 8 /\ next_8 <= 8 THEN 8
        ELSE IF remaining < 8 /\ next_8 <= 16 THEN 16
        ELSE IF remaining >= 8 /\ remaining < 16 /\ next_16 <= 8 THEN 8
        ELSE least_width(S, i)

\* C25: a block that starts with fewer than 4 integers remaining has width
\* 8, 16 or 32 (8 if the next 8 widths are all <= 8, else 16 if all <= 16,
\* else 32); with 4 to 7 remaining it has width 8 if the next 8 widths are
\* all <= 8, else 16 if all <= 16; with 8 to 15 remaining it has width 8 if
\* the next 16 widths are all <= 8; in every other case it has the width of
\* the ordinary promotion rule.
C25_TailPromotion ==
    pc \in {"walking", "planned", "returned"} =>
        \A b \in 1 .. Len(obs.enc.blocks) :
            LET blk == obs.enc.blocks[b]
            IN  /\ blk.bits = tail_width(obs.enc.smoothed,
                                         obs.enc.source_integers, blk.start)
                /\ obs.enc.source_integers - blk.start < 4 =>
                       blk.bits \in {8, 16, 32}

\* a walk of two blocks: the first starts with 4 to 7 integers remaining and
\* widths above 16 ahead, and has the ordinary width; the second starts with
\* fewer than 4 remaining and is raised from 21 to 32
C25_Witness ==
    /\ pc = "planned"
    /\ Len(obs.enc.blocks) = 2
    /\ obs.enc.source_integers - obs.enc.blocks[1].start \in 4 .. 7
    /\ largest_of(obs.enc.smoothed, obs.enc.blocks[1].start, 8) > 16
    /\ obs.enc.source_integers - obs.enc.blocks[2].start < 4
    /\ obs.enc.smoothed[obs.enc.blocks[2].start] = 21
    /\ obs.enc.blocks[2].bits = 32

(***************************************************************************)
(* C26                                                                     *)
(***************************************************************************)
\* the indices of the width buffer used so far are indices of the
\* source_integers + WASTAGE bytes, and the buffer has them
indices_in_buffer ==
    /\ obs.enc.lo >= 0
    /\ obs.enc.hi < obs.enc.source_integers + WASTAGE
    /\ \A x \in obs.enc.lo .. obs.enc.hi : x \in DOMAIN length_buffer
    /\ obs.enc.ahead <= obs.enc.source_integers + 255

\* C26: during encode of N integers every index of the width buffer that
\* the lengths, the zero lengths, the smoothing, the tail tests and the
\* walk read or store to is in [0, N + 512), inside the bytes the buffer
\* has; no case of the switch reads beyond index N + 255.
C26_IndicesInBuffer ==
    pc \in {"walking", "planned", "returned", "crashed"} => indices_in_buffer

\* C26 for the sources of at least one integer
C26_NonEmpty ==
    (pc \in {"walking", "planned", "returned", "crashed"}
     /\ obs.enc.source_integers >= 1) => indices_in_buffer

\* case 0 has read 252 lengths ahead of a cursor with fewer than 8 integers
\* remaining: the zero lengths up to index N + 247
C26_NonEmpty_Witness ==
    /\ pc = "planned"
    /\ obs.enc.ahead = obs.enc.source_integers + 247
    /\ obs.enc.hi = obs.enc.source_integers + WASTAGE - 1

\* the call with no integer on a fresh instance: the first zero length is
\* stored at index 0 of a buffer that was never allocated
C26_Example_Empty ==
    /\ pc = "crashed"
    /\ source = << >>
    /\ length_buffer = NULL
    /\ obs.enc.lo = 0

(***************************************************************************)
(* C27                                                                     *)
(***************************************************************************)
\* write_out has read no integer of the caller's array at an index >= N and
\* no entry of the padding buffer that its 0-padding had not stored to
reads_in_bounds ==
    /\ obs.enc.src_hi < Len(source)
    /\ ~obs.enc.pad_unset

\* C27: while packing, write_out reads only source integers at indices < N
\* and entries of the padding buffer that the current call has stored to:
\* the zero fill covers every entry the packing loops read, and no element
\* of the caller's array at an index >= N is read.
C27_ReadsInBounds == (obs.ncalls > 0 /\ Returned) => reads_in_bounds

\* C27 for the sources of at least one integer
C27_NonEmpty ==
    (obs.ncalls > 0 /\ Returned /\ Len(source) >= 1) => reads_in_bounds

\* a second call on the instance, whose last run ends within a batch of two
\* blocks: the second block is read from the padding buffer, which the
\* first call left longer than this call stores to
C27_NonEmpty_Witness ==
    /\ obs.ncalls = 2
    /\ Returned
    /\ Len(source) >= 1
    /\ obs.enc.pad_hi >= 0
    /\ obs.enc.pad_hi + 1 < Len(full_length_buffer)
    /\ \E c \in 1 .. Len(obs.enc.calls) :
          /\ run_blocks(obs.enc.calls[c]) >= 2
          /\ obs.enc.calls[c].raw_count % n(obs.enc.calls[c].bits) # 0

\* the call with no integer on an instance that served a call: source[0] is
\* read
C27_Example_Empty ==
    /\ obs.ncalls = 2
    /\ Returned
    /\ source = << >>
    /\ obs.enc.src_hi = 0

(***************************************************************************)
(* C28                                                                     *)
(***************************************************************************)
\* C28: a padding buffer of 256 integers is enough: every index of it that
\* the 0-padding of write_out stores to (the remaining integers of the run
\* copied, then n(w) zeros) is below 256.
C28_PadBufferSuffices == (obs.ncalls > 0 /\ Returned) => obs.enc.pad_hi < 256

\* 148 integers of width 1 are two blocks of 128: the 148 are copied to the
\* padding buffer and 128 zeros are stored after them, up to index 275
C28_Example ==
    /\ Returned
    /\ source = Ramp(1, 148)
    /\ Len(obs.enc.calls) = 1
    /\ obs.enc.calls[1].bits = 1
    /\ obs.enc.pad_hi = 275
    /\ Len(full_length_buffer) = 276

(***************************************************************************)
(* C29                                                                     *)
(***************************************************************************)
\* the step is a call of encode
an_encode == obs'.ncalls = obs.ncalls + 1

\* the largest length of the calls of encode so far, 0 if there is none
longest_so_far ==
    MaxOf({0} \cup {Len(obs.history[h].source) :
                       h \in {x \in 1 .. Len(obs.history) :
                                 obs.history[x].op = "encode"}})

\* the call allocated a width buffer: the recorded length was set
reallocated == length_buffer_length' # length_buffer_length

\* what the statement says of one call: it allocates exactly when its
\* length exceeds every earlier one (and the recorded 0), and its widths
\* are stored to a buffer of max(N1 .. Nk) + 512 bytes
call_allocates ==
    LET longest == maximum(longest_so_far, Len(source'))
    IN  /\ reallocated <=> Len(source') > longest_so_far
        /\ length_buffer' # NULL
        /\ Cardinality(DOMAIN length_buffer') = longest + WASTAGE
        /\ Cardinality(DOMAIN length_buffer') >= Len(source') + WASTAGE
        /\ length_buffer_length' = longest

\* C29: over the calls of encode on an instance that starts with a null
\* width buffer of recorded length 0, a call allocates the buffer if and
\* only if its length exceeds every earlier length; when it stores widths
\* the buffer is non-null with max(N1 .. Nk) + 512 >= Nk + 512 bytes; the
\* recorded length never decreases.
C29_WidthBufferGrows ==
    /\ [][an_encode => call_allocates]_vars
    /\ [][length_buffer_length' >= length_buffer_length]_vars

\* C29 for the sequences of calls that do not start with an empty source
C29_AfterNonEmpty ==
    /\ [][(an_encode /\ (length_buffer # NULL \/ Len(source') >= 1))
           => call_allocates]_vars
    /\ [][length_buffer_length' >= length_buffer_length]_vars

\* a second call, longer than the first, has allocated a larger buffer
C29_AfterNonEmpty_Witness ==
    /\ obs.ncalls = 2
    /\ Returned
    /\ Len(obs.history[1].source) \in 1 .. (Len(source) - 1)
    /\ length_buffer_length = Len(source)
    /\ Cardinality(DOMAIN length_buffer) = Len(source) + WASTAGE

\* a second call, shorter than the first, has stored its widths to the
\* buffer of the first
C29_AfterNonEmpty_Kept ==
    /\ obs.ncalls = 2
    /\ Returned
    /\ Len(source) \in 1 .. (Len(obs.history[1].source) - 1)
    /\ length_buffer_length = Len(obs.history[1].source)
    /\ Cardinality(DOMAIN length_buffer) = length_buffer_length + WASTAGE

\* the first call has no integer: no buffer is allocated and the call does
\* not return
C29_Example_Empty ==
    /\ obs.ncalls = 1
    /\ pc = "crashed"
    /\ source = << >>
    /\ length_buffer = NULL
    /\ length_buffer_length = 0

(***************************************************************************)
(* C30                                                                     *)
(***************************************************************************)
\* the index of the first integer of the run of the c-th call of write_out
RECURSIVE run_start(_, _)
run_start(calls, c) ==
    IF c <= 1 THEN 0
    ELSE run_start(calls, c - 1) + calls[c - 1].raw_count

\* the indices of the width buffer the c-th call stores its selectors at
selector_indices(calls, c) ==
    calls[c].first_key ..
        (calls[c].first_key + run_selectors(run_blocks(calls[c])) - 1)

\* the indices of the widths the run-length coder has not read when it makes
\* the c-th call: it has read the width that ended the run
unread_widths(calls, c, source_integers) ==
    (run_start(calls, c) + calls[c].raw_count + 1) .. (source_integers - 1)

\* C30: for every source of N >= 1 integers, every selector byte that
\* write_out stores in the width buffer is stored at an index below every
\* width the run-length coder has still to read, and the selector bytes are
\* at most N.
C30_SelectorsBehindWidths ==
    (obs.ncalls > 0 /\ Returned /\ Len(source) >= 1) =>
        /\ \A c \in 1 .. Len(obs.enc.calls) :
              \A s \in selector_indices(obs.enc.calls, c) :
                  \A x \in unread_widths(obs.enc.calls, c, Len(source)) :
                      x > s
        /\ obs.enc.keys <= Len(source)
        /\ obs.enc.calls[1].first_key = 0
        /\ \A c \in 2 .. Len(obs.enc.calls) :
              obs.enc.calls[c].first_key
                = obs.enc.calls[c - 1].first_key
                  + run_selectors(run_blocks(obs.enc.calls[c - 1]))

\* three runs: the selectors of the second are stored while the widths of
\* the third are unread
C30_Witness ==
    /\ Returned
    /\ Len(obs.enc.calls) >= 3
    /\ obs.enc.keys >= 3
    /\ unread_widths(obs.enc.calls, 2, Len(source)) # {}
    /\ obs.enc.calls[2].first_key >= 1

\* one integer, one selector: the bound N is met
C30_Witness_One ==
    /\ Returned
    /\ Len(source) = 1
    /\ obs.enc.keys = 1
====
